---- MODULE Spec2Model ----
(***************************************************************************)
(* Media organizer: the location-resolution and batch-coordination         *)
(* pipeline of media_organizer (geocoder.py, file_organizer.py, main.py).  *)
(*                                                                         *)
(* Units.  A coordinate is a pair <<lat, lon>> of integers counted in      *)
(* quarters of 1e-6 degrees, so that the 6-decimal cache key of            *)
(* geocoder.py:78 is a real rounding (four coordinates share one key).     *)
(* Time is counted in ticks of half a second.  None is the empty tuple; a  *)
(* Location is a 3-tuple of strings, which Python's `if location:` finds   *)
(* truthy.                                                                 *)
(***************************************************************************)
EXTENDS Integers, Sequences, FiniteSets, TLC

VARIABLES
    \* ---- Geocoder (geocoder.py) ----
    now,                \* time.time(), in ticks
    geolocator,         \* self.geolocator is set (geopy importable)
    geocoding_cache,    \* self._geocoding_cache: cache key -> result
    cache_hits,         \* self._cache_hits
    cache_misses,       \* self._cache_misses
    last_request_time,  \* self._last_request_time
    tqdm_available,     \* `from tqdm import tqdm` (geocoder.py:149) succeeds
    pc,                 \* per thread: position inside reverse_geocode
    fr,                 \* per thread: the frame of its reverse_geocode call
    wake,               \* per thread: end of its current time.sleep
    bt,                 \* per thread: the frame of its batch_reverse_geocode call
    netlog,             \* history: outbound requests (count, last start, least gap)
    prevCall,           \* history: per coordinate, the last completed call on it
    ncalls,             \* history: number of reverse_geocode calls made
    \* ---- FileOrganizer (file_organizer.py) ----
    src,                \* the source tree: path -> content
    dest,               \* the files under destination_root: <<dir, name>> -> content
    dirs,               \* the directories under destination_root
    folder_structure,   \* self.folder_structure
    directory_cache,    \* self._directory_cache: cache key -> directory
    skipped_files_count,\* self.skipped_files_count
    operation,          \* "copy" or "move"
    wpc,                \* per worker: position inside organize_file
    wtask,              \* per worker: the frame of its organize_file call
    ntasks,             \* history: number of organize_file calls made
    \* ---- MediaOrganizer (main.py) ----
    entry,              \* "plan" (plan_organization) or "execute" (process_files)
    media_files,        \* what scan_directory returns
    has_gps_data,       \* per file: the answer of metadata_extractor.has_gps_data
    gps,                \* per file: what extract_gps_coordinates returns or raises
    fast_mode,          \* the user's answer to the fast-mode question
    run,                \* the locals of the running plan_organization / process_files
    ui                  \* the locals of get_user_input and self.max_workers

geoVars == <<now, geolocator, tqdm_available, geocoding_cache, cache_hits, cache_misses,
             last_request_time, pc, fr, wake, bt, netlog, prevCall, ncalls>>

fsVars == <<src, dest, dirs, folder_structure, directory_cache,
            skipped_files_count, operation, wpc, wtask, ntasks>>

orchVars == <<entry, media_files, has_gps_data, gps, fast_mode, run, ui>>

vars == <<geoVars, fsVars, orchVars>>

\* what a step inside the Geocoder leaves alone, and a step inside the
\* FileOrganizer
outsideGeocoder == <<fsVars, orchVars>>

outsideFileOrganizer == <<geoVars, orchVars>>

----------------------------------------------------------------------------
(* Values *)

NoneVal == <<>>

Truthy(x) == x # NoneVal

Unknown3 == <<"Unknown", "Unknown", "Unknown">>

Threads == {"main", "bg"}

Min(a, b) == IF a <= b THEN a ELSE b

Max(a, b) == IF a >= b THEN a ELSE b

RECURSIVE Pow2(_)
Pow2(n) == IF n = 0 THEN 1 ELSE 2 * Pow2(n - 1)

\* Coordinates used as inputs.  CA and CA2 differ below the sixth decimal and
\* share a cache key; CB is exactly the tolerance away from CA and from CC; CC
\* is farther than the tolerance from CA; CD is far away from all of them.
CA  == <<0, 0>>
CA2 == <<1, 0>>
CB  == <<12000, 16000>>
CC  == <<24000, 0>>
CD  == <<400000, -80000>>

Coords == {CA, CA2, CB, CC, CD}

----------------------------------------------------------------------------
(* geocoder.py: constants of reverse_geocode and _group_similar_coordinates *)

min_delay == 2          \* 1.0 s

max_retries == 3

base_delay == 2         \* 1.0 s

tolerance == 20000      \* 0.005 degrees

\* The clock when the program starts: time.time() is far beyond min_delay
\* after the epoch, where _last_request_time = 0 lies.
StartTime == min_delay + 1

----------------------------------------------------------------------------
(* geocoder.py: the cache key, f"{latitude:.6f},{longitude:.6f}" *)

Round6(x) == (x + 2) \div 4

CacheKey(c) == <<Round6(c[1]), Round6(c[2])>>

----------------------------------------------------------------------------
(* geocoder.py: _extract_country_state_city and its helpers.  A raw answer *)
(* is a record; its address is a record holding only the keys present.     *)

Get(address, k) == IF k \in DOMAIN address THEN address[k] ELSE ""

\* a.get(k1) or a.get(k2) or ... or 'Unknown'
RECURSIVE FirstOf(_, _)
FirstOf(address, keys) ==
    IF keys = <<>> THEN "Unknown"
    ELSE IF Get(address, Head(keys)) # "" THEN Get(address, Head(keys))
    ELSE FirstOf(address, Tail(keys))

\* strip, '_' -> ' ', title-case, and the spellings of "unknown"
clean_location_name(name) ==
    CASE name = "" -> "Unknown"
      [] name = "Unknown" -> "Unknown"
      [] name = "none" -> "Unknown"
      [] name = "null" -> "Unknown"
      [] name = " india " -> "India"
      [] name = "new_delhi" -> "New Delhi"
      [] name = "in" -> "In"
      [] OTHER -> name

normalize_country_name(country) ==
    CASE country = "Deutschland" -> "Germany"
      [] country = "Espagne" -> "Spain"
      [] OTHER -> country

normalize_state_name(state) ==
    CASE state = "Bayern" -> "Bavaria"
      [] OTHER -> state

normalize_city_name(city) ==
    CASE city = "Munchen" -> "Munich"
      [] OTHER -> city

\* the city -> state table, applied when the state is "Unknown"
infer_state(country, state, city) ==
    IF state # "Unknown" THEN state
    ELSE CASE city = "New Delhi" /\ country = "India" -> "Delhi"
           [] city = "Mumbai" /\ country = "India" -> "Maharashtra"
           [] city = "Doha" /\ country = "Qatar" -> "Doha"
           [] city = "Pattaya" /\ country = "Thailand" -> "Chonburi"
           [] OTHER -> state

extract_country_state_city(location_data) ==
    IF "address" \notin DOMAIN location_data
    THEN NoneVal         \* address is no dict: the exception is swallowed
    ELSE LET address == location_data.address
             country == normalize_country_name(clean_location_name(
                          FirstOf(address, <<"country", "country_code", "state">>)))
             state   == normalize_state_name(clean_location_name(
                          FirstOf(address, <<"state", "province", "region", "county">>)))
             city    == normalize_city_name(clean_location_name(
                          FirstOf(address, <<"city", "town", "village", "municipality",
                                             "suburb", "district">>)))
         IN  <<country, infer_state(country, state, city), city>>

\* What the service may answer with (location.raw).
RawDelhi   == [address |-> [country |-> " india ", city |-> "new_delhi"]]
RawMunich  == [address |-> [country |-> "Deutschland", state |-> "Bayern",
                            town |-> "Munchen"]]
RawNowhere == [address |-> [country |-> "none"]]
RawBad     == [malformed |-> TRUE]

RawAnswers == {RawDelhi, RawMunich, RawNowhere, RawBad}

----------------------------------------------------------------------------
(* geocoder.py: _group_similar_coordinates.  The loops are run over the    *)
(* positions of the list, as the code runs them (`used` is a set of        *)
(* positions); a group is returned as the list of its coordinates.         *)

Abs(x) == IF x < 0 THEN -x ELSE x

\* mutant of WithinTolerance: the squared distance is compared with the
\* square of twice the tolerance
WithinToleranceTwice(c1, c2, tol) ==
    /\ Abs(c1[1] - c2[1]) <= 2 * tol
    /\ Abs(c1[2] - c2[2]) <= 2 * tol
    /\ (c1[1] - c2[1]) * (c1[1] - c2[1]) + (c1[2] - c2[2]) * (c1[2] - c2[2])
          <= 4 * tol * tol

\* mutant of WithinTolerance: `<` for `<=`
WithinToleranceStrict(c1, c2, tol) ==
    /\ Abs(c1[1] - c2[1]) <= tol
    /\ Abs(c1[2] - c2[2]) <= tol
    /\ (c1[1] - c2[1]) * (c1[1] - c2[1]) + (c1[2] - c2[2]) * (c1[2] - c2[2])
          < tol * tol

\* ((lat1 - lat2) ** 2 + (lon1 - lon2) ** 2) ** 0.5 <= tolerance
WithinTolerance(c1, c2, tol) ==
    /\ Abs(c1[1] - c2[1]) <= tol
    /\ Abs(c1[2] - c2[2]) <= tol
    /\ (c1[1] - c2[1]) * (c1[1] - c2[1]) + (c1[2] - c2[2]) * (c1[2] - c2[2])
          <= tol * tol

\* mutant of InnerLoop: the loop is left at the first coordinate that is
\* farther than the tolerance
RECURSIVE InnerLoopBreaks(_, _, _, _, _, _)
InnerLoopBreaks(coordinates, i, j, used, group, tol) ==
    IF j > Len(coordinates) THEN [group |-> group, used |-> used]
    ELSE IF j \in used THEN InnerLoopBreaks(coordinates, i, j + 1, used, group, tol)
    ELSE IF WithinTolerance(coordinates[i], coordinates[j], tol)
         THEN InnerLoopBreaks(coordinates, i, j + 1, used \cup {j}, Append(group, j), tol)
         ELSE [group |-> group, used |-> used]

\* for j, coord2 in enumerate(coordinates[i+1:], i+1)
RECURSIVE InnerLoop(_, _, _, _, _, _)
InnerLoop(coordinates, i, j, used, group, tol) ==
    IF j > Len(coordinates) THEN [group |-> group, used |-> used]
    ELSE IF j \in used THEN InnerLoop(coordinates, i, j + 1, used, group, tol)
    ELSE IF WithinTolerance(coordinates[i], coordinates[j], tol)
         THEN InnerLoop(coordinates, i, j + 1, used \cup {j}, Append(group, j), tol)
         ELSE InnerLoop(coordinates, i, j + 1, used, group, tol)

\* mutant of OuterLoop: `if i in used: continue` is missing
RECURSIVE OuterLoopNoSkip(_, _, _, _, _)
OuterLoopNoSkip(coordinates, i, used, groups, tol) ==
    IF i > Len(coordinates) THEN groups
    ELSE LET r == InnerLoop(coordinates, i, i + 1, used \cup {i}, <<i>>, tol)
         IN  OuterLoopNoSkip(coordinates, i + 1, r.used, Append(groups, r.group), tol)

\* for i, coord1 in enumerate(coordinates)
RECURSIVE OuterLoop(_, _, _, _, _)
OuterLoop(coordinates, i, used, groups, tol) ==
    IF i > Len(coordinates) THEN groups
    ELSE IF i \in used THEN OuterLoop(coordinates, i + 1, used, groups, tol)
    ELSE LET r == InnerLoop(coordinates, i, i + 1, used \cup {i}, <<i>>, tol)
         IN  OuterLoop(coordinates, i + 1, r.used, Append(groups, r.group), tol)

\* the groups, as lists of positions of the input list
GroupPositions(coordinates, tol) == OuterLoop(coordinates, 1, {}, <<>>, tol)

group_similar_coordinates(coordinates, tol) ==
    LET gp == GroupPositions(coordinates, tol)
    IN  [g \in 1..Len(gp) |-> [k \in 1..Len(gp[g]) |-> coordinates[gp[g][k]]]]

Range(seq) == {seq[k] : k \in 1..Len(seq)}

----------------------------------------------------------------------------
(* geocoder.py: reverse_geocode, one action per step a thread can be       *)
(* observed between.                                                       *)

\* mutant of CachePut: the result is never stored
CachePutDropped(cache, key, result) == cache

\* mutant of CachePut: a cache of one entry, the newest
CachePutEvicting(cache, key, result) == [k \in {key} |-> result]

\* self._geocoding_cache[cache_key] = result
CachePut(cache, key, result) ==
    [k \in DOMAIN cache \cup {key} |-> IF k = key THEN result ELSE cache[k]]

\* mutant of ThrottleSleep: the remainder is taken one tick short
ThrottleSleepShort(current_time, last) ==
    IF current_time - last < min_delay - 1
    THEN min_delay - 1 - (current_time - last)
    ELSE 0

\* lines 87-93: the time to sleep before the first attempt (0: no sleep)
ThrottleSleep(current_time, last) ==
    IF current_time - last < min_delay
    THEN min_delay - (current_time - last)
    ELSE 0

\* mutant of BackoffDelay: a constant back-off
BackoffDelayFlat(attempt) == base_delay

\* line 114: delay = base_delay * (2 ** attempt)
BackoffDelay(attempt) == base_delay * Pow2(attempt)

\* mutant of RetryAfterTimeout: the last attempt is retried once more
RetryOnceMore(attempt) == attempt < max_retries

\* line 116: whether a timed-out attempt is followed by another one
RetryAfterTimeout(attempt) == attempt < max_retries - 1

NoPrev == [done |-> FALSE, status |-> "none", result |-> NoneVal]

EmptyFrame ==
    [coord |-> NoneVal, attempt |-> 0, nreq |-> 0, thr_at |-> 0, thr_gap |-> 0,
     thr_sleep |-> 0, sleeps |-> <<>>, outs |-> <<>>, raw |-> NoneVal,
     result |-> NoneVal, status |-> "none", prev |-> NoPrev, cache0 |-> <<>>]

NewFrame(c) ==
    [coord |-> c, attempt |-> 0, nreq |-> 0, thr_at |-> 0, thr_gap |-> 0,
     thr_sleep |-> 0, sleeps |-> <<>>, outs |-> <<>>, raw |-> NoneVal,
     result |-> NoneVal, status |-> "running", prev |-> prevCall[c],
     cache0 |-> geocoding_cache]

\* `return result` of the call whose frame is f
Return(t, f, status, result) ==
    /\ fr' = [fr EXCEPT ![t] = [f EXCEPT !.status = status, !.result = result]]
    /\ pc' = [pc EXCEPT ![t] = "idle"]
    /\ prevCall' = [prevCall EXCEPT ![f.coord] =
                       [done |-> TRUE, status |-> status, result |-> result]]

\* mutant of Enter: the miss is counted before the cache is looked up
EnterCountsMiss(t, c) ==
    /\ pc[t] = "idle"
    /\ ncalls' = ncalls + 1
    /\ UNCHANGED <<now, geolocator, tqdm_available, geocoding_cache,
                   last_request_time, wake, netlog>>
    /\ IF ~geolocator
       THEN /\ Return(t, NewFrame(c), "nogeo", NoneVal)
            /\ UNCHANGED <<cache_hits, cache_misses>>
       ELSE IF CacheKey(c) \in DOMAIN geocoding_cache
       THEN /\ cache_hits' = cache_hits + 1
            /\ cache_misses' = cache_misses + 1
            /\ Return(t, NewFrame(c), "hit", geocoding_cache[CacheKey(c)])
       ELSE /\ cache_misses' = cache_misses + 1
            /\ fr' = [fr EXCEPT ![t] = NewFrame(c)]
            /\ pc' = [pc EXCEPT ![t] = "throttle"]
            /\ UNCHANGED <<cache_hits, prevCall>>

\* lines 73-84: the call, the geolocator test and the cache lookup
Enter(t, c) ==
    /\ pc[t] = "idle"
    /\ ncalls' = ncalls + 1
    /\ UNCHANGED <<now, geolocator, tqdm_available, geocoding_cache,
                   last_request_time, wake, netlog>>
    /\ IF ~geolocator
       THEN /\ Return(t, NewFrame(c), "nogeo", NoneVal)
            /\ UNCHANGED <<cache_hits, cache_misses>>
       ELSE IF CacheKey(c) \in DOMAIN geocoding_cache
       THEN /\ cache_hits' = cache_hits + 1
            /\ Return(t, NewFrame(c), "hit", geocoding_cache[CacheKey(c)])
            /\ UNCHANGED cache_misses
       ELSE /\ cache_misses' = cache_misses + 1
            /\ fr' = [fr EXCEPT ![t] = NewFrame(c)]
            /\ pc' = [pc EXCEPT ![t] = "throttle"]
            /\ UNCHANGED <<cache_hits, prevCall>>

\* lines 87-93: the rate limit before the first attempt
Throttle(t) ==
    /\ pc[t] = "throttle"
    /\ LET d == ThrottleSleep(now, last_request_time)
       IN  /\ fr' = [fr EXCEPT ![t].thr_at = now,
                               ![t].thr_gap = IF netlog.count = 0 THEN -1
                                              ELSE now - netlog.last,
                               ![t].thr_sleep = d]
           /\ IF d > 0
              THEN /\ pc' = [pc EXCEPT ![t] = "sleep"]
                   /\ wake' = [wake EXCEPT ![t] = now + d]
              ELSE /\ pc' = [pc EXCEPT ![t] = "attempt"]
                   /\ UNCHANGED wake
    /\ UNCHANGED <<now, geolocator, tqdm_available, geocoding_cache, cache_hits,
                   cache_misses, last_request_time, bt, netlog, prevCall, ncalls>>

\* time.sleep returns (lines 93 and 117)
Wake(t) ==
    /\ pc[t] = "sleep"
    /\ now >= wake[t]
    /\ pc' = [pc EXCEPT ![t] = "attempt"]
    /\ UNCHANGED <<now, geolocator, tqdm_available, geocoding_cache, cache_hits,
                   cache_misses, last_request_time, fr, wake, bt, netlog,
                   prevCall, ncalls>>

\* lines 101-102: the timestamp is taken and the request goes out
Attempt(t) ==
    /\ pc[t] = "attempt"
    /\ last_request_time' = now
    /\ netlog' = [count |-> netlog.count + 1, last |-> now,
                  minGap |-> IF netlog.count = 0 THEN netlog.minGap
                             ELSE IF netlog.count = 1 THEN now - netlog.last
                             ELSE Min(netlog.minGap, now - netlog.last)]
    /\ fr' = [fr EXCEPT ![t].nreq = @ + 1]
    /\ pc' = [pc EXCEPT ![t] = "inflight"]
    /\ UNCHANGED <<now, geolocator, tqdm_available, geocoding_cache, cache_hits,
                   cache_misses, wake, bt, prevCall, ncalls>>

\* lines 104-108: an answer with raw data is extracted, cached and returned
RespondAnswer(t, raw) ==
    /\ pc[t] = "inflight"
    /\ LET result == extract_country_state_city(raw)
           f == [fr[t] EXCEPT !.outs = Append(@, "answer"), !.raw = raw]
       IN  /\ geocoding_cache' = CachePut(geocoding_cache, CacheKey(f.coord), result)
           /\ Return(t, f, "answered", result)
    /\ UNCHANGED <<now, geolocator, tqdm_available, cache_hits, cache_misses,
                   last_request_time, wake, bt, netlog, ncalls>>

\* mutant of BreaksLoop: only a missing location leaves the loop; the
\* exceptions are retried like a timeout
BreaksLoopOnEmptyOnly(kind) == kind = "empty"

\* lines 109-111 and 121-127: the outcomes after which the loop is left at
\* once (no location data, GeocoderUnavailable, any other exception)
BreaksLoop(kind) == kind \in {"empty", "unavailable", "error"}

\* lines 109-127: an attempt that yields no location.  A break returns None;
\* GeocoderTimedOut sleeps the back-off and tries again, unless the attempt
\* was the last one
RespondFailure(t, kind) ==
    /\ pc[t] = "inflight"
    /\ kind \in {"empty", "unavailable", "error", "timeout"}
    /\ LET f == [fr[t] EXCEPT !.outs = Append(@, kind)]
           delay == BackoffDelay(f.attempt)
       IN  IF BreaksLoop(kind)
           THEN /\ Return(t, f, kind, NoneVal)
                /\ UNCHANGED wake
           ELSE IF RetryAfterTimeout(f.attempt)
           THEN /\ fr' = [fr EXCEPT ![t] = [f EXCEPT !.sleeps = Append(@, delay),
                                                     !.attempt = @ + 1]]
                /\ pc' = [pc EXCEPT ![t] = "sleep"]
                /\ wake' = [wake EXCEPT ![t] = now + delay]
                /\ UNCHANGED prevCall
           ELSE /\ Return(t, f, kind, NoneVal)
                /\ UNCHANGED wake
    /\ UNCHANGED <<now, geolocator, tqdm_available, geocoding_cache, cache_hits,
                   cache_misses, last_request_time, bt, netlog, ncalls>>

\* The clock.  A sleeping thread wakes when its sleep ends; between calls
\* time passes freely, but time beyond min_delay since the last request
\* changes no decision of the code and is not counted.
Tick ==
    /\ \A t \in Threads : pc[t] = "sleep" => now < wake[t]
    /\ \/ \E t \in Threads : pc[t] = "sleep"
       \/ /\ \A t \in Threads : pc[t] = "idle"
          /\ now - last_request_time <= min_delay
    /\ now' = now + 1
    /\ UNCHANGED <<geolocator, tqdm_available, geocoding_cache, cache_hits,
                   cache_misses, last_request_time, pc, fr, wake, bt, netlog,
                   prevCall, ncalls>>

----------------------------------------------------------------------------
(* geocoder.py: batch_reverse_geocode *)

\* mutant of Broadcast: only the representative receives the result
BroadcastToFirst(results, group, result) ==
    [c \in DOMAIN results \cup {group[1]} |->
        IF c = group[1] THEN result ELSE results[c]]

\* for coord in group: results[coord] = result
Broadcast(results, group, result) ==
    [c \in DOMAIN results \cup Range(group) |->
        IF c \in Range(group) THEN result ELSE results[c]]

\* the coordinate reverse_geocode is called on for a group (line 155)
Representative(group) == group[1]

NoBatch ==
    [status |-> "off", coordinates |-> <<>>, groups |-> <<>>, positions |-> <<>>,
     i |-> 1,
     waiting |-> FALSE, results |-> <<>>, calls |-> <<>>]

\* lines 141-150: the groups are computed; the tqdm import may raise
BatchStart(t, coordinates) ==
    /\ pc[t] = "idle"
    /\ bt[t].status # "running"
    /\ LET groups == group_similar_coordinates(coordinates, tolerance)
       IN  bt' = [bt EXCEPT ![t] =
                    [NoBatch EXCEPT
                       !.status = IF ~tqdm_available THEN "raised"
                                  ELSE IF groups = <<>> THEN "done"
                                  ELSE "running",
                       !.coordinates = coordinates,
                       !.positions = GroupPositions(coordinates, tolerance),
                       !.groups = groups]]
    /\ UNCHANGED <<now, geolocator, tqdm_available, geocoding_cache, cache_hits,
                   cache_misses, last_request_time, pc, fr, wake, netlog,
                   prevCall, ncalls>>

\* lines 152-156: reverse_geocode is called on the next group's representative
BatchNext(t) ==
    /\ bt[t].status = "running"
    /\ ~bt[t].waiting
    /\ Enter(t, Representative(bt[t].groups[bt[t].i]))
    /\ bt' = [bt EXCEPT ![t].waiting = TRUE]

\* lines 158-160 and 177-178: the result is given to the whole group; after
\* the last group the mapping is returned
BatchCollect(t) ==
    /\ bt[t].status = "running"
    /\ bt[t].waiting
    /\ pc[t] = "idle"
    /\ LET b == bt[t]
           group == b.groups[b.i]
       IN  bt' = [bt EXCEPT ![t] =
                    [b EXCEPT
                       !.results = Broadcast(b.results, group, fr[t].result),
                       !.calls = Append(@, [coord |-> fr[t].coord,
                                            result |-> fr[t].result]),
                       !.i = @ + 1,
                       !.waiting = FALSE,
                       !.status = IF b.i = Len(b.groups) THEN "done"
                                  ELSE "running"]]
    /\ UNCHANGED <<now, geolocator, tqdm_available, geocoding_cache, cache_hits,
                   cache_misses, last_request_time, pc, fr, wake, netlog,
                   prevCall, ncalls>>

\* get_cache_stats, lines 218-234: it reads the counters and the size of
\* the cache and changes nothing; the hit rate is in hundredths of a
\* percent, rounded
get_cache_stats ==
    LET total_requests == cache_hits + cache_misses
    IN  [cache_hits |-> cache_hits,
         cache_misses |-> cache_misses,
         total_requests |-> total_requests,
         hit_rate_percent |->
             IF total_requests > 0
             THEN (2 * 10000 * cache_hits + total_requests) \div (2 * total_requests)
             ELSE 0,
         cache_size |-> Cardinality(DOMAIN geocoding_cache)]

\* a caller's own call of reverse_geocode
Resolve(t, c) ==
    /\ bt[t].status # "running"
    /\ Enter(t, c)
    /\ UNCHANGED bt

----------------------------------------------------------------------------
(* file_organizer.py.  A file is its content; a directory under            *)
(* destination_root is the list of its path components.                    *)

Workers == {"w1", "w2"}

\* the threads that call organize_file: the pool's workers and the main thread
Callers == Workers \cup {"main"}

\* Source files: two files of the same name and different content in two
\* source directories, and a third file.
SrcPaths == {"a/img.jpg", "b/img.jpg", "a/vid.mp4"}

\* Path(source_path).name
FileName(path) ==
    CASE path = "a/img.jpg" -> "img.jpg"
      [] path = "b/img.jpg" -> "img.jpg"
      [] path = "a/vid.mp4" -> "vid.mp4"

InitialSrc ==
    [p \in SrcPaths |-> CASE p = "a/img.jpg" -> "X"
                          [] p = "b/img.jpg" -> "Y"
                          [] p = "a/vid.mp4" -> "V"]

\* _sanitize_filename: invalid characters become '_', native names are
\* mapped, dots and spaces are stripped, and an empty name becomes "Unknown"
sanitize_filename(filename) ==
    CASE filename = "A/B" -> "A_B"
      [] filename = "." -> "Unknown"
      [] filename = " Goa " -> "Goa"
      [] OTHER -> filename

\* lines 60-64
DirCacheKey(structure, country, state, city) ==
    IF structure = "state"
    THEN <<sanitize_filename(country), sanitize_filename(state)>>
    ELSE <<sanitize_filename(country), sanitize_filename(state),
           sanitize_filename(city)>>

\* mutant of LocationPath: no single folder for the Unknown location
LocationPathNested(structure, country, state, city) ==
    IF structure = "state"
    THEN <<sanitize_filename(country), sanitize_filename(state)>>
    ELSE <<sanitize_filename(country), sanitize_filename(state),
           sanitize_filename(city)>>

\* lines 70-80: the directory for a location, below destination_root
LocationPath(structure, country, state, city) ==
    IF /\ sanitize_filename(country) = "Unknown"
       /\ sanitize_filename(state) = "Unknown"
       /\ sanitize_filename(city) = "Unknown"
    THEN <<"Unknown">>
    ELSE IF structure = "state"
    THEN <<sanitize_filename(country), sanitize_filename(state)>>
    ELSE <<sanitize_filename(country), sanitize_filename(state),
           sanitize_filename(city)>>

\* destination_root, as a directory: the empty list of components
Root == <<>>

\* mkdir(parents=True, exist_ok=True): the directory and all its parents,
\* destination_root included
Prefixes(path) == {SubSeq(path, 1, k) : k \in 0..Len(path)}

\* a test that never sees the destination file
DestExistsNever(fs, dir, name) == FALSE

\* dest_file.exists()
DestExists(fs, dir, name) == <<dir, name>> \in DOMAIN fs

\* shutil.copy2(source_file, dest_file) / shutil.move(source, dest_file):
\* the destination file holds the source's content afterwards
WriteFile(fs, dir, name, content) ==
    [k \in DOMAIN fs \cup {<<dir, name>>} |->
        IF k = <<dir, name>> THEN content ELSE fs[k]]

\* the source tree after shutil.move
RemoveFile(tree, path) == [q \in DOMAIN tree \ {path} |-> tree[q]]

\* One organize_file call of a worker.  Beside the locals (path, loc, dir,
\* tmp) the record keeps what the call observed: the location it was called
\* with (loc0; loc is the one of the innermost create_location_directory
\* call), the trees and the counter
\* at its start (src0, dest0, skipped0), whether the destination file was
\* there at the test (saw_dest) and at the write (overwrote), and the
\* <<path, directory>> pairs this caller has transferred (placed; placed0 at
\* the start of the call), and the number of calls of this caller that
\* skipped (nskips).
NoTask ==
    [path |-> "", loc |-> Unknown3, loc0 |-> Unknown3, dir |-> <<>>, tmp |-> 0, status |-> "none",
     result |-> FALSE, saw_dest |-> FALSE, identical |-> FALSE, fellback |-> FALSE,
     overwrote |-> FALSE, placed |-> {}, placed0 |-> {},
     src0 |-> <<>>, dest0 |-> <<>>, skipped0 |-> 0, nskips |-> 0]

\* organize_file is called (lines 203-220)
StartTask(w, path, loc) ==
    /\ wpc[w] = "idle"
    /\ wtask' = [wtask EXCEPT ![w] =
                   [NoTask EXCEPT !.path = path, !.loc = loc, !.loc0 = loc,
                                  !.status = "running",
                                  !.placed = wtask[w].placed,
                                  !.placed0 = wtask[w].placed,
                                  !.nskips = wtask[w].nskips,
                                  !.src0 = src, !.dest0 = dest,
                                  !.skipped0 = skipped_files_count]]
    /\ wpc' = [wpc EXCEPT ![w] = "dir_lookup"]
    /\ ntasks' = ntasks + 1
    /\ UNCHANGED <<src, dest, dirs, folder_structure, directory_cache,
                   skipped_files_count, operation>>

\* organize_file returns
Finish(w, t, result) ==
    /\ wtask' = [wtask EXCEPT ![w] = [t EXCEPT !.status = "done", !.result = result]]
    /\ wpc' = [wpc EXCEPT ![w] = "idle"]

\* create_location_directory, lines 55-68: the cache lookup
DirLookup(w) ==
    /\ wpc[w] = "dir_lookup"
    /\ LET t == wtask[w]
           key == DirCacheKey(folder_structure, t.loc[1], t.loc[2], t.loc[3])
       IN  IF key \in DOMAIN directory_cache
           THEN /\ wtask' = [wtask EXCEPT ![w].dir = directory_cache[key]]
                /\ wpc' = [wpc EXCEPT ![w] = "src_check"]
           ELSE /\ wtask' = [wtask EXCEPT ![w].dir =
                               LocationPath(folder_structure, t.loc[1], t.loc[2],
                                            t.loc[3])]
                /\ wpc' = [wpc EXCEPT ![w] = "mkdir"]
    /\ UNCHANGED <<src, dest, dirs, folder_structure, directory_cache,
                   skipped_files_count, operation, ntasks>>

\* mutant of Mkdir: mkdir without exist_ok, which raises when another
\* caller has made the directory in the meantime
MkdirExclusive(w, ok) ==
    /\ wpc[w] = "mkdir"
    /\ LET t == wtask[w]
           key == DirCacheKey(folder_structure, t.loc[1], t.loc[2], t.loc[3])
       IN  IF ok /\ t.dir \notin dirs
           THEN /\ dirs' = dirs \cup Prefixes(t.dir)
                /\ directory_cache' =
                      [k \in DOMAIN directory_cache \cup {key} |->
                          IF k = key THEN t.dir ELSE directory_cache[k]]
                /\ wpc' = [wpc EXCEPT ![w] = "src_check"]
                /\ UNCHANGED wtask
           ELSE IF t.loc = Unknown3
           THEN /\ Finish(w, t, FALSE)
                /\ UNCHANGED <<dirs, directory_cache>>
           ELSE /\ wtask' = [wtask EXCEPT ![w].loc = Unknown3,
                                          ![w].fellback = TRUE]
                /\ wpc' = [wpc EXCEPT ![w] = "dir_lookup"]
                /\ UNCHANGED <<dirs, directory_cache>>
    /\ UNCHANGED <<src, dest, folder_structure, skipped_files_count, operation,
                   ntasks>>

\* create_location_directory, lines 82-91: mkdir and the cache entry; a
\* failure falls back to the Unknown directory, and a failure there ends
\* organize_file with False (line 228)
Mkdir(w, ok) ==
    /\ wpc[w] = "mkdir"
    /\ LET t == wtask[w]
           key == DirCacheKey(folder_structure, t.loc[1], t.loc[2], t.loc[3])
       IN  IF ok
           THEN /\ dirs' = dirs \cup Prefixes(t.dir)
                /\ directory_cache' =
                      [k \in DOMAIN directory_cache \cup {key} |->
                          IF k = key THEN t.dir ELSE directory_cache[k]]
                /\ wpc' = [wpc EXCEPT ![w] = "src_check"]
                /\ UNCHANGED wtask
           ELSE IF t.loc = Unknown3
           THEN /\ Finish(w, t, FALSE)
                /\ UNCHANGED <<dirs, directory_cache>>
           ELSE /\ wtask' = [wtask EXCEPT ![w].loc = Unknown3,
                                          ![w].fellback = TRUE]
                /\ wpc' = [wpc EXCEPT ![w] = "dir_lookup"]
                /\ UNCHANGED <<dirs, directory_cache>>
    /\ UNCHANGED <<src, dest, folder_structure, skipped_files_count, operation,
                   ntasks>>

\* copy_file / move_file, lines 135-138 and 175-178: source_file.exists()
SrcCheck(w) ==
    /\ wpc[w] = "src_check"
    /\ IF wtask[w].path \in DOMAIN src
       THEN /\ wpc' = [wpc EXCEPT ![w] = "dest_check"]
            /\ UNCHANGED wtask
       ELSE Finish(w, wtask[w], FALSE)
    /\ UNCHANGED <<src, dest, dirs, folder_structure, directory_cache,
                   skipped_files_count, operation, ntasks>>

\* lines 141-146 and 181-186: dest_file.exists() and, when it does,
\* _files_are_identical
DestCheck(w) ==
    /\ wpc[w] = "dest_check"
    /\ LET t == wtask[w]
           name == FileName(t.path)
       IN  IF DestExists(dest, t.dir, name)
           THEN /\ wtask' = [wtask EXCEPT
                               ![w].saw_dest = <<t.dir, name>> \in DOMAIN dest,
                               ![w].identical =
                                   /\ t.path \in DOMAIN src
                                   /\ src[t.path] = dest[<<t.dir, name>>]]
                /\ wpc' = [wpc EXCEPT ![w] = "skip_read"]
           ELSE /\ wtask' = [wtask EXCEPT
                               ![w].saw_dest = <<t.dir, name>> \in DOMAIN dest]
                /\ wpc' = [wpc EXCEPT ![w] = "transfer"]
    /\ UNCHANGED <<src, dest, dirs, folder_structure, directory_cache,
                   skipped_files_count, operation, ntasks>>

\* lines 148/151 and 188/191, self.skipped_files_count += 1: the read
SkipRead(w) ==
    /\ wpc[w] = "skip_read"
    /\ wtask' = [wtask EXCEPT ![w].tmp = skipped_files_count]
    /\ wpc' = [wpc EXCEPT ![w] = "skip_write"]
    /\ UNCHANGED <<src, dest, dirs, folder_structure, directory_cache,
                   skipped_files_count, operation, ntasks>>

\* self.skipped_files_count += 1: the write, and `return True` (152, 192)
SkipWrite(w) ==
    /\ wpc[w] = "skip_write"
    /\ skipped_files_count' = wtask[w].tmp + 1
    /\ Finish(w, [wtask[w] EXCEPT !.nskips = @ + 1], TRUE)
    /\ UNCHANGED <<src, dest, dirs, folder_structure, directory_cache, operation,
                   ntasks>>

\* lines 155-161 and 195-201: shutil.copy2 or shutil.move, which replace a
\* destination file that has appeared since the test; an OSError (and a
\* source that is gone) returns False
Transfer(w, ok) ==
    /\ wpc[w] = "transfer"
    /\ LET t == wtask[w]
           name == FileName(t.path)
       IN  IF ok /\ t.path \in DOMAIN src
           THEN /\ dest' = WriteFile(dest, t.dir, name, src[t.path])
                /\ src' = IF operation = "move" THEN RemoveFile(src, t.path)
                          ELSE src
                /\ Finish(w, [t EXCEPT !.overwrote = <<t.dir, name>> \in DOMAIN dest,
                                       !.placed = @ \cup {<<t.path, t.dir>>}],
                          TRUE)
           ELSE /\ Finish(w, t, FALSE)
                /\ UNCHANGED <<src, dest>>
    /\ UNCHANGED <<dirs, folder_structure, directory_cache, skipped_files_count,
                   operation, ntasks>>

----------------------------------------------------------------------------
(* main.py: plan_organization and process_files.  The sizes the code       *)
(* compares with are scaled down, so that a few files make a large dataset *)
(* and a sleeping resolver outlasts the wait on the background thread.     *)

\* MediaOrganizer.__init__(self, max_workers: int = 4), line 28
InitWorkers == 4

\* `max_workers = 16`, line 99
DefaultWorkers == 16

\* `if 1 <= max_workers <= 32`, line 107
MaxWorkers == 32

\* int(workers_input) raises ValueError, or returns a number
ValueError == [raised |-> TRUE, value |-> 0]

Number(n) == [raised |-> FALSE, value |-> n]

\* A typed line is a sequence of characters.
Digits == <<"0", "1", "2", "3", "4", "5", "6", "7", "8", "9">>

IsDigit(c) == \E k \in DOMAIN Digits : Digits[k] = c

DigitValue(c) == (CHOOSE k \in DOMAIN Digits : Digits[k] = c) - 1

RECURSIVE lstrip(_)
lstrip(s) == IF s # <<>> /\ Head(s) = " " THEN lstrip(Tail(s)) ELSE s

RECURSIVE rstrip(_)
rstrip(s) ==
    IF s # <<>> /\ s[Len(s)] = " " THEN rstrip(SubSeq(s, 1, Len(s) - 1)) ELSE s

\* str.strip()
strip(s) == rstrip(lstrip(s))

RECURSIVE DecimalValue(_)
DecimalValue(s) ==
    IF s = <<>> THEN 0
    ELSE 10 * DecimalValue(SubSeq(s, 1, Len(s) - 1)) + DigitValue(s[Len(s)])

\* int(text): blanks around the number and a sign before it are accepted,
\* anything else than decimal digits raises ValueError
int(text) ==
    LET t == strip(text)
        signed == t # <<>> /\ Head(t) \in {"-", "+"}
        body == IF signed THEN Tail(t) ELSE t
    IN  IF body = <<>> \/ \E k \in DOMAIN body : ~IsDigit(body[k]) THEN ValueError
        ELSE IF signed /\ Head(t) = "-" THEN Number(0 - DecimalValue(body))
        ELSE Number(DecimalValue(body))

\* get_user_input is not running
NoPrompt ==
    [pc |-> "idle", mode |-> "", max_workers |-> DefaultWorkers,
     self_max_workers |-> InitWorkers, answers |-> <<>>]

\* lines 90-99: the mode is read and max_workers gets its default; only
\* the execute mode asks for the number of workers
ModePrompt(mode) ==
    /\ ui.pc = "mode"
    /\ ui' = [ui EXCEPT !.mode = mode,
                        !.max_workers = DefaultWorkers,
                        !.pc = IF mode = "execute" THEN "workers" ELSE "return"]
    /\ UNCHANGED <<entry, media_files, has_gps_data, gps, fast_mode, run>>

\* lines 101-112: one turn of the loop that asks for the number of workers
WorkersPrompt(typed) ==
    /\ ui.pc = "workers"
    /\ LET workers_input == strip(typed)
           parsed == int(workers_input)
           asked == [ui EXCEPT !.answers = Append(@, typed)]
       IN  ui' = IF workers_input = <<>> THEN [asked EXCEPT !.pc = "return"]
                 ELSE IF parsed.raised THEN asked
                 ELSE [asked EXCEPT !.max_workers = parsed.value,
                                    !.pc = IF 1 <= parsed.value
                                              /\ parsed.value <= MaxWorkers
                                           THEN "return" ELSE "workers"]
    /\ UNCHANGED <<entry, media_files, has_gps_data, gps, fast_mode, run>>

\* line 114 and run(), lines 867-870: the value is returned and becomes
\* self.max_workers, with which the pool is made (line 630)
ReturnInput ==
    /\ ui.pc = "return"
    /\ ui' = [ui EXCEPT !.self_max_workers = ui.max_workers, !.pc = "done"]
    /\ UNCHANGED <<entry, media_files, has_gps_data, gps, fast_mode, run>>

\* `len(coordinates_data) > 1000` (lines 207 and 484)
LargeDataset == 1

\* `sample_size = min(5000, len(all_coordinates))` (lines 249, 285, 528, 571)
SampleCap == 1

\* `geocoding_completed.wait(timeout=900)` (lines 246 and 525), in ticks
WaitTimeout == 1

\* extract_gps_coordinates raises
Raises == <<"raise">>

\* the name `location` before its first assignment in process_files
Unbound == <<"unbound">>

inputs == <<entry, media_files, has_gps_data, gps, fast_mode, ui>>

\* metadata_extractor.has_gps_data(file_path), called at lines 149 and 428:
\* the class MetadataExtractor of the sources has no such method, and the
\* specification describes it as has_gps_hint, a cheap probe with a boolean
\* answer per path that may be wrong in both directions
HasGpsHint(file_path) == has_gps_data[file_path]

\* lines 148-154 and 427-433: the pre-filter
FilesWithGps == SelectSeq(media_files, LAMBDA f : HasGpsHint(f))

FilesWithoutGps == SelectSeq(media_files, LAMBDA f : ~HasGpsHint(f))

\* extract_gps_coordinates inside its try: an exception leaves no coordinates
Extracted(f) == IF gps[f] = Raises THEN NoneVal ELSE gps[f]

\* plan_organization, lines 176-193: only the files with coordinates
PlanCoordinatesData ==
    LET with == SelectSeq(FilesWithGps, LAMBDA f : Truthy(Extracted(f)))
    IN  [k \in 1..Len(with) |-> <<with[k], Extracted(with[k])>>]

\* plan_organization, lines 181-193: the files that go to Unknown at once
PlanNoCoordinates == SelectSeq(FilesWithGps, LAMBDA f : ~Truthy(Extracted(f)))

\* process_files, lines 456-467: every pre-filtered file, with None for a
\* file without coordinates
ExecCoordinatesData ==
    [k \in 1..Len(FilesWithGps) |-> <<FilesWithGps[k], Extracted(FilesWithGps[k])>>]

\* lines 204 and 478-479: the coordinates handed to the resolver
AllCoordinates(coordinates_data) ==
    LET valid == SelectSeq(coordinates_data, LAMBDA d : d[2] # NoneVal)
    IN  [k \in 1..Len(valid) |-> valid[k][2]]

\* all_coordinates[::step]
Strided(all_coordinates, step) ==
    [k \in 1..((Len(all_coordinates) + step - 1) \div step) |->
        all_coordinates[(k - 1) * step + 1]]

\* mutant of SampleOf: the strided list is not cut to sample_size
SampleUncut(all_coordinates, bound) ==
    LET n == Len(all_coordinates)
        sample_size == Min(bound, n)
    IN  IF n > sample_size
        THEN Strided(all_coordinates, n \div sample_size)
        ELSE all_coordinates

\* lines 249-255 and 528-534, with the bound (5000 in the code) as a
\* parameter: all_coordinates[::step][:sample_size]
SampleOf(all_coordinates, bound) ==
    LET n == Len(all_coordinates)
        sample_size == Min(bound, n)
    IN  IF n > sample_size
        THEN LET step == n \div sample_size
                 strided == Strided(all_coordinates, step)
             IN  SubSeq(strided, 1, Min(sample_size, Len(strided)))
        ELSE all_coordinates

Sample(all_coordinates) == SampleOf(all_coordinates, SampleCap)

\* geocoding_results.get(coordinates)
ResultGet(results, coordinates) ==
    IF coordinates \in DOMAIN results THEN results[coordinates] ELSE NoneVal

\* the folder keys of the plan: "Unknown" and f"{country}/{state}/{city}"
UnknownKey == <<"Unknown">>

FolderKey(location) ==
    IF Truthy(location) THEN <<location[1], location[2], location[3]>>
    ELSE UnknownKey

\* folder_structure[folder_key].append(file_path), the key created at need
AddFile(folders, folder_key, file_path) ==
    [k \in DOMAIN folders \cup {folder_key} |->
        IF k = folder_key
        THEN IF folder_key \in DOMAIN folders
             THEN Append(folders[folder_key], file_path)
             ELSE <<file_path>>
        ELSE folders[k]]

RECURSIVE AddAll(_, _, _)
\* a loop that appends every file of a list to one key
AddAll(folders, folder_key, files) ==
    IF files = <<>> THEN folders
    ELSE AddAll(AddFile(folders, folder_key, Head(files)), folder_key, Tail(files))

RECURSIVE AddByResult(_, _, _)
\* the loops of lines 259-273 (a coordinate outside the results goes to
\* Unknown) and 335-349, which come to the same keys
AddByResult(folders, coordinates_data, results) ==
    IF coordinates_data = <<>> THEN folders
    ELSE LET d == Head(coordinates_data)
             location == ResultGet(results, d[2])
         IN  AddByResult(AddFile(folders, FolderKey(location), d[1]),
                         Tail(coordinates_data), results)

Paths(coordinates_data) == [k \in 1..Len(coordinates_data) |-> coordinates_data[k][1]]

NoRun ==
    [pc |-> "start", coordinates_data |-> <<>>, geocoding_results |-> <<>>,
     geocoding_completed |-> FALSE, geocoding_error |-> FALSE, bg |-> "none",
     deadline |-> 0, loop |-> "none", i |-> 1, location |-> Unbound,
     folder_structure |-> <<>>, total_files |-> 0,
     successful_operations |-> 0, failed_operations |-> 0, no_gps_files |-> 0,
     geocoding_failed_files |-> 0, futures |-> <<>>,
     organize_calls |-> [p \in SrcPaths |-> 0],
     routes |-> [p \in SrcPaths |-> {}], branch |-> "none",
     returned |-> "none",
     all_coordinates |-> <<>>, sample_bound |-> 0, sample_coordinates |-> <<>>]

\* where the code goes once the resolver's results are there, or once every
\* file has been given to Unknown: "Process results" (lines 332 and 627)
AfterGeocoding == IF entry = "plan" THEN "process" ELSE "submit"

\* lines 128-212 and 407-489: the FileOrganizer is made (its __init__
\* creates destination_root, file_organizer.py:40), then the scan, the
\* pre-filter and the extraction of the coordinates, up to the choice of the
\* branch
Prepare ==
    /\ run.pc = "start"
    /\ LET cd == IF entry = "plan" THEN PlanCoordinatesData ELSE ExecCoordinatesData
           large == Len(cd) > LargeDataset
       IN  run' = [run EXCEPT
                     !.coordinates_data = cd,
                     !.folder_structure =
                         IF entry = "plan" THEN AddAll(<<>>, UnknownKey, PlanNoCoordinates)
                         ELSE <<>>,
                     !.total_files = IF entry = "plan" THEN Len(PlanNoCoordinates) ELSE 0,
                     !.branch = IF cd = <<>> THEN "none"
                                ELSE IF ~large THEN "small"
                                ELSE IF fast_mode THEN "fast" ELSE "background",
                     !.returned = IF media_files = <<>> THEN "True" ELSE "none",
                     !.pc = IF media_files = <<>> THEN "returned"
                            ELSE IF cd = <<>>
                            THEN IF entry = "plan" THEN "process" ELSE "after_pool"
                            ELSE IF ~large THEN "small"
                            ELSE IF fast_mode THEN "fast" ELSE "spawn"]
    /\ dirs' = dirs \cup {Root}
    /\ UNCHANGED <<src, dest, folder_structure, directory_cache,
                   skipped_files_count, operation, wpc, wtask, ntasks>>
    /\ UNCHANGED <<geoVars, inputs>>

\* The loops of process_files that call organize_file one file after the
\* other in the main thread: "fast" (lines 493-499), "sample" (538-557 and
\* 581-600), "unknown" (561-567, 604-610 and 616-622) and "tail" (674-684).
LoopItems ==
    IF run.loop = "tail"
    THEN [k \in 1..Len(FilesWithoutGps) |-> <<FilesWithoutGps[k], NoneVal>>]
    ELSE run.coordinates_data

StartLoop(r, loop) == [r EXCEPT !.loop = loop, !.i = 1, !.pc = "loop_call"]

\* one iteration up to the call of organize_file
LoopCall ==
    /\ run.pc = "loop_call"
    /\ LET d == LoopItems[run.i]
           known == run.loop = "sample" /\ d[2] \in DOMAIN run.geocoding_results
           location == IF known THEN run.geocoding_results[d[2]] ELSE run.location
           loc == IF known /\ Truthy(location) THEN location ELSE Unknown3
       IN  /\ StartTask("main", d[1], loc)
           /\ run' = [run EXCEPT !.pc = "loop_ret",
                                 !.location = location,
                                 !.organize_calls[d[1]] = @ + 1,
                                 !.routes[d[1]] = @ \cup {loc}]
    /\ UNCHANGED <<geoVars, inputs>>

\* mutant of LoopReturn: a failed placement ends process_files at once
LoopReturnAborts ==
    /\ run.pc = "loop_ret"
    /\ wtask["main"].status = "done"
    /\ LET success == wtask["main"].result
           last == run.i = Len(LoopItems)
       IN  run' =
             IF ~success
             THEN [run EXCEPT !.failed_operations = @ + 1,
                              !.pc = "returned", !.returned = "False"]
             ELSE IF run.loop = "sample" /\ run.location = Unbound
             THEN StartLoop([run EXCEPT !.successful_operations = @ + 1], "unknown")
             ELSE LET counted ==
                        [run EXCEPT
                           !.successful_operations = @ + 1,
                           !.no_gps_files =
                               IF run.loop # "sample" \/ ~Truthy(run.location)
                               THEN @ + 1 ELSE @]
                  IN  IF ~last
                      THEN [counted EXCEPT !.i = @ + 1, !.pc = "loop_call"]
                      ELSE [counted EXCEPT !.pc = IF run.loop = "tail" THEN "summary"
                                                  ELSE "submit"]
    /\ UNCHANGED <<geoVars, fsVars, inputs>>

\* the rest of the iteration: the counters.  In the "sample" loop
\* `if location:` reads a name that is unbound until a coordinate has been
\* found in the results; the UnboundLocalError is caught by the handler of
\* lines 558 and 601, which gives every file to Unknown.
LoopReturn ==
    /\ run.pc = "loop_ret"
    /\ wtask["main"].status = "done"
    /\ LET success == wtask["main"].result
           last == run.i = Len(LoopItems)
           counted ==
               [run EXCEPT
                  !.successful_operations = IF success THEN @ + 1 ELSE @,
                  !.failed_operations = IF success THEN @ ELSE @ + 1,
                  !.no_gps_files =
                      IF success /\ (run.loop # "sample" \/ ~Truthy(run.location))
                      THEN @ + 1 ELSE @]
       IN  run' =
             IF run.loop = "sample" /\ success /\ run.location = Unbound
             THEN StartLoop([run EXCEPT !.successful_operations = @ + 1], "unknown")
             ELSE IF ~last
             THEN [counted EXCEPT !.i = @ + 1, !.pc = "loop_call"]
             ELSE [counted EXCEPT !.pc = IF run.loop = "tail" THEN "summary"
                                         ELSE "submit"]
    /\ UNCHANGED <<geoVars, fsVars, inputs>>

\* lines 489-499: fast mode in process_files
FastModeExecute ==
    /\ run.pc = "fast"
    /\ entry = "execute"
    /\ run' = StartLoop([run EXCEPT !.geocoding_results = <<>>], "fast")
    /\ UNCHANGED <<geoVars, fsVars, inputs>>

\* every file of coordinates_data is given to Unknown in the plan (lines
\* 216-220, 277-281, 313-317 and 323-327)
PlanAllUnknown(r) ==
    [r EXCEPT !.folder_structure = AddAll(@, UnknownKey, Paths(r.coordinates_data)),
              !.total_files = @ + Len(r.coordinates_data),
              !.pc = "process"]

\* mutant of FastModePlan: fast mode does not skip the batch call
FastModePlanResolves ==
    /\ run.pc = "fast"
    /\ entry = "plan"
    /\ run' = [run EXCEPT !.pc = "small"]
    /\ UNCHANGED <<geoVars, fsVars, inputs>>

\* lines 212-220: fast mode in plan_organization
FastModePlan ==
    /\ run.pc = "fast"
    /\ entry = "plan"
    /\ run' = PlanAllUnknown([run EXCEPT !.geocoding_results = <<>>])
    /\ UNCHANGED <<geoVars, fsVars, inputs>>

\* every file is given to Unknown, by the loop of the plan or by the
\* "unknown" loop of process_files
AllUnknown(r) == IF entry = "plan" THEN PlanAllUnknown(r) ELSE StartLoop(r, "unknown")

\* lines 223-246 and 502-525: the background thread is started and the main
\* thread waits on the event; a thread that cannot be started is an
\* exception for the handler of lines 319 and 612
Spawn(ok) ==
    /\ run.pc = "spawn"
    /\ run' = IF ok
              THEN [run EXCEPT !.geocoding_results = <<>>,
                               !.geocoding_completed = FALSE,
                               !.geocoding_error = FALSE,
                               !.bg = "start",
                               !.deadline = now + WaitTimeout,
                               !.pc = "wait"]
              ELSE AllUnknown([run EXCEPT !.geocoding_results = <<>>,
                                          !.branch = "thread_error"])
    /\ UNCHANGED <<geoVars, fsVars, inputs>>

\* geocoding_worker, lines 231-234 and 510-513: the batch call
WorkerCalls ==
    /\ run.bg = "start"
    /\ BatchStart("bg", AllCoordinates(run.coordinates_data))
    /\ run' = [run EXCEPT !.bg = "running"]
    /\ UNCHANGED <<fsVars, inputs>>

\* geocoding_worker, lines 234-238 and 513-517: the nonlocal assignment of
\* the results or of the error, and the event; it happens whenever the
\* batch call ends, whether the main thread still waits or not
WorkerReturns ==
    /\ run.bg = "running"
    /\ bt["bg"].status \in {"done", "raised"}
    /\ run' = [run EXCEPT
                 !.geocoding_results = IF bt["bg"].status = "done"
                                       THEN bt["bg"].results ELSE @,
                 !.geocoding_error = bt["bg"].status = "raised",
                 !.geocoding_completed = TRUE,
                 !.bg = "exited"]
    /\ UNCHANGED <<geoVars, fsVars, inputs>>

\* mutant of WaitReturns: the main thread goes on without waiting for the
\* event
WaitReturnsEarly ==
    /\ run.pc = "wait"
    /\ run' = IF run.geocoding_error
              THEN [run EXCEPT !.pc = "sample_batch", !.branch = "resolver_error"]
              ELSE [run EXCEPT !.pc = AfterGeocoding, !.branch = "completed"]
    /\ UNCHANGED <<geoVars, fsVars, inputs>>

\* lines 246/282 and 525/568: the wait ends with the event set
WaitReturns ==
    /\ run.pc = "wait"
    /\ run.geocoding_completed
    /\ run' = IF run.geocoding_error
              THEN [run EXCEPT !.pc = "sample_batch", !.branch = "resolver_error"]
              ELSE [run EXCEPT !.pc = AfterGeocoding, !.branch = "completed"]
    /\ UNCHANGED <<geoVars, fsVars, inputs>>

\* lines 246 and 525: the wait times out
WaitTimesOut ==
    /\ run.pc = "wait"
    /\ ~run.geocoding_completed
    /\ now >= run.deadline
    /\ run' = [run EXCEPT !.pc = "sample_batch", !.branch = "timeout"]
    /\ UNCHANGED <<geoVars, fsVars, inputs>>

\* lines 249-257, 285-293, 528-536 and 571-579: the batch call on the
\* sample, in the main thread
SampleBatch ==
    /\ run.pc = "sample_batch"
    /\ BatchStart("main", Sample(AllCoordinates(run.coordinates_data)))
    /\ run' = [run EXCEPT !.pc = "sample_wait"]
    /\ UNCHANGED <<fsVars, inputs>>

\* lines 257-281, 293-317, 536-567 and 579-610: the results are assigned and the
\* files are given to their folders; an exception of the batch call gives
\* every file to Unknown
SampleReturns ==
    /\ run.pc = "sample_wait"
    /\ bt["main"].status \in {"done", "raised"}
    /\ run' =
         IF bt["main"].status = "raised" THEN AllUnknown(run)
         ELSE IF entry = "plan"
         THEN [run EXCEPT
                 !.geocoding_results = bt["main"].results,
                 !.folder_structure =
                     AddByResult(@, run.coordinates_data, bt["main"].results),
                 !.total_files = @ + Len(run.coordinates_data),
                 !.pc = "process"]
         ELSE StartLoop([run EXCEPT !.geocoding_results = bt["main"].results],
                        "sample")
    /\ UNCHANGED <<geoVars, fsVars, inputs>>

\* lines 330 and 625: the batch call of a small dataset, in the main thread
SmallBatch ==
    /\ run.pc = "small"
    /\ BatchStart("main", AllCoordinates(run.coordinates_data))
    /\ run' = [run EXCEPT !.pc = "small_wait"]
    /\ UNCHANGED <<fsVars, inputs>>

\* its return; an exception of the batch call ends the function with False
\* (lines 390-392 and 717-719)
SmallReturns ==
    /\ run.pc = "small_wait"
    /\ bt["main"].status \in {"done", "raised"}
    /\ run' = IF bt["main"].status = "raised"
              THEN [run EXCEPT !.pc = "returned", !.returned = "False",
                               !.branch = "exception"]
              ELSE [run EXCEPT !.geocoding_results = bt["main"].results,
                               !.pc = AfterGeocoding]
    /\ UNCHANGED <<geoVars, fsVars, inputs>>

\* plan_organization, lines 332-362 and 364-388: "Process results", the
\* files without GPS data, and the report
PlanProcess ==
    /\ run.pc = "process"
    /\ LET processed == AddByResult(run.folder_structure, run.coordinates_data,
                                    run.geocoding_results)
       IN  run' = [run EXCEPT
                     !.folder_structure = AddAll(processed, UnknownKey, FilesWithoutGps),
                     !.total_files = @ + Len(run.coordinates_data) + Len(FilesWithoutGps),
                     !.pc = "returned",
                     !.returned = "True"]
    /\ UNCHANGED <<geoVars, fsVars, inputs>>

\* process_files, lines 630-641: one task is submitted for every entry of
\* coordinates_data, with the results dictionary of this moment
Submit ==
    /\ run.pc = "submit"
    /\ run' = [run EXCEPT
                 !.futures =
                     [k \in 1..Len(run.coordinates_data) |->
                        LET d == run.coordinates_data[k]
                            location == ResultGet(run.geocoding_results, d[2])
                        IN  [path |-> d[1],
                             loc |-> IF Truthy(location) THEN location ELSE Unknown3,
                             gps_status |-> IF d[2] = NoneVal THEN "no_gps"
                                            ELSE IF Truthy(location) THEN "success"
                                            ELSE "geocoding_failed",
                             state |-> "queued",
                             worker |-> ""]],
                 !.pc = "pool"]
    /\ UNCHANGED <<geoVars, fsVars, inputs>>

Holds(w) == {k \in DOMAIN run.futures :
                run.futures[k].state = "running" /\ run.futures[k].worker = w}

Queued == {k \in DOMAIN run.futures : run.futures[k].state = "queued"}

\* a free worker of the pool takes the next task: _process_file_with_location
\* or _process_file_without_gps up to the call of organize_file
PoolTake(w) ==
    /\ run.pc = "pool"
    /\ Holds(w) = {}
    /\ Queued # {}
    /\ LET k == CHOOSE q \in Queued : \A q2 \in Queued : q <= q2
           f == run.futures[k]
       IN  /\ StartTask(w, f.path, f.loc)
           /\ run' = [run EXCEPT !.futures[k].state = "running",
                                 !.futures[k].worker = w,
                                 !.organize_calls[f.path] = @ + 1,
                                 !.routes[f.path] = @ \cup {f.loc}]
    /\ UNCHANGED <<geoVars, inputs>>

\* mutant of Collect: the counters are shared with the workers without a
\* lock, and of two tasks that have ended together one increment is lost
CollectLosesUpdate(w) ==
    /\ run.pc = "pool"
    /\ Holds(w) # {}
    /\ wtask[w].status = "done"
    /\ LET k == CHOOSE q \in Holds(w) : TRUE
           success == wtask[w].result
           together == {q \in DOMAIN run.futures :
                           /\ run.futures[q].state = "running"
                           /\ wtask[run.futures[q].worker].status = "done"}
       IN  run' = [run EXCEPT
                     !.futures = [q \in DOMAIN @ |->
                                    IF q \in together
                                    THEN [@[q] EXCEPT !.state = "counted"] ELSE @[q]],
                     !.successful_operations = IF success THEN @ + 1 ELSE @,
                     !.failed_operations = IF success THEN @ ELSE @ + 1]
    /\ UNCHANGED <<geoVars, fsVars, inputs>>

\* lines 646-659: a task has ended and the as_completed loop counts it
Collect(w) ==
    /\ run.pc = "pool"
    /\ Holds(w) # {}
    /\ wtask[w].status = "done"
    /\ LET k == CHOOSE q \in Holds(w) : TRUE
           success == wtask[w].result
           gps_status == run.futures[k].gps_status
       IN  run' = [run EXCEPT
                     !.futures[k].state = "counted",
                     !.successful_operations = IF success THEN @ + 1 ELSE @,
                     !.failed_operations = IF success THEN @ ELSE @ + 1,
                     !.geocoding_failed_files =
                         IF success /\ gps_status = "geocoding_failed" THEN @ + 1 ELSE @,
                     !.no_gps_files =
                         IF success /\ gps_status = "no_gps" THEN @ + 1 ELSE @]
    /\ UNCHANGED <<geoVars, fsVars, inputs>>

\* the pool is left when every task is counted
PoolExit ==
    /\ run.pc = "pool"
    /\ \A k \in DOMAIN run.futures : run.futures[k].state = "counted"
    /\ run' = [run EXCEPT !.pc = "after_pool"]
    /\ UNCHANGED <<geoVars, fsVars, inputs>>

\* lines 668-669: the files without GPS data, if there are any
AfterPool ==
    /\ run.pc = "after_pool"
    /\ run' = IF FilesWithoutGps # <<>> THEN StartLoop(run, "tail")
              ELSE [run EXCEPT !.pc = "summary"]
    /\ UNCHANGED <<geoVars, fsVars, inputs>>

\* logger.py, lines 90-91: the parameters of log_operation_summary after self
log_operation_summary == <<"total_files", "processed_files",
                           "successful_operations", "failed_operations">>

\* main.py, lines 696-700: the arguments process_files calls it with
SummaryArguments == <<"len(media_files)", "len(media_files)",
                      "successful_operations", "failed_operations",
                      "skipped_files_count">>

\* a call with positional arguments: TypeError when there are more arguments
\* than parameters or (no parameter has a default) fewer
RaisesTypeError(parameters, arguments) == Len(arguments) # Len(parameters)

\* lines 692-719: the summary and `return failed_operations == 0`; the
\* TypeError of the call of log_operation_summary is caught by the handler
\* of line 717, which returns False
Summary ==
    /\ run.pc = "summary"
    /\ run' = [run EXCEPT !.pc = "returned",
                          !.returned =
                              IF RaisesTypeError(log_operation_summary, SummaryArguments)
                              THEN "False"
                              ELSE IF run.failed_operations = 0 THEN "True"
                              ELSE "False"]
    /\ UNCHANGED <<geoVars, fsVars, inputs>>

\* The clock while plan_organization or process_files runs: time passes
\* only while a thread sleeps, and the wait does not outlast its timeout.
OrchTick ==
    /\ \E t \in Threads : pc[t] = "sleep"
    /\ ~(run.pc = "wait" /\ ~run.geocoding_completed /\ now >= run.deadline)
    /\ Tick
    /\ UNCHANGED <<fsVars, orchVars>>

----------------------------------------------------------------------------
(* Initial states *)

InitGeocoder ==
    /\ now = StartTime
    /\ geolocator \in BOOLEAN
    /\ tqdm_available \in BOOLEAN
    /\ geocoding_cache = <<>>
    /\ cache_hits = 0
    /\ cache_misses = 0
    /\ last_request_time = 0
    /\ pc = [t \in Threads |-> "idle"]
    /\ fr = [t \in Threads |-> EmptyFrame]
    /\ wake = [t \in Threads |-> 0]
    /\ bt = [t \in Threads |-> NoBatch]
    /\ netlog = [count |-> 0, last |-> 0, minGap |-> 0]
    /\ prevCall = [c \in Coords |-> NoPrev]
    /\ ncalls = 0

\* the Geocoder when a specification does not use it
IdleGeocoder ==
    /\ now = StartTime
    /\ geolocator = TRUE
    /\ tqdm_available = TRUE
    /\ geocoding_cache = <<>>
    /\ cache_hits = 0
    /\ cache_misses = 0
    /\ last_request_time = 0
    /\ pc = [t \in Threads |-> "idle"]
    /\ fr = [t \in Threads |-> EmptyFrame]
    /\ wake = [t \in Threads |-> 0]
    /\ bt = [t \in Threads |-> NoBatch]
    /\ netlog = [count |-> 0, last |-> 0, minGap |-> 0]
    /\ prevCall = [c \in Coords |-> NoPrev]
    /\ ncalls = 0

\* Locations files are placed at.
PlaceLocations == {Unknown3, <<"India", "Delhi", "New Delhi">>}

\* What destination_root may hold before the run: nothing, or a file
\* img.jpg in the Unknown directory, identical to a/img.jpg or not.
InitialDests ==
    {<<>>} \cup {[k \in {<<(<<"Unknown">>), "img.jpg">>} |-> c] : c \in {"X", "Z"}}

InitFileOrganizer ==
    /\ src = InitialSrc
    /\ dest \in InitialDests
    /\ dirs = IF dest = <<>> THEN {Root} ELSE {Root, <<"Unknown">>}
    /\ folder_structure \in {"city", "state"}
    /\ directory_cache = <<>>
    /\ skipped_files_count = 0
    /\ operation \in {"copy", "move"}
    /\ wpc = [w \in Callers |-> "idle"]
    /\ wtask = [w \in Callers |-> NoTask]
    /\ ntasks = 0

\* the FileOrganizer when a specification does not use it
IdleFileOrganizer ==
    /\ src = InitialSrc
    /\ dest = <<>>
    /\ dirs = {Root}
    /\ folder_structure = "city"
    /\ directory_cache = <<>>
    /\ skipped_files_count = 0
    /\ operation = "copy"
    /\ wpc = [w \in Callers |-> "idle"]
    /\ wtask = [w \in Callers |-> NoTask]
    /\ ntasks = 0

\* the MediaOrganizer when a specification does not use it
IdleOrchestrator ==
    /\ entry = "plan"
    /\ media_files = <<>>
    /\ has_gps_data = [p \in SrcPaths |-> FALSE]
    /\ gps = [p \in SrcPaths |-> NoneVal]
    /\ fast_mode = FALSE
    /\ run = NoRun
    /\ ui = NoPrompt

\* the files of the source directory in the order of the scan
AllFiles == <<"a/img.jpg", "b/img.jpg", "a/vid.mp4">>

\* what a file can be to the metadata extractor: no GPS data at the
\* pre-filter, or GPS data that yield coordinates, nothing, or an exception
FileKinds ==
    {[hint |-> FALSE, gps |-> NoneVal]}
    \cup {[hint |-> TRUE, gps |-> g] : g \in {CA, CD, NoneVal, Raises}}

InitOrchestrator(n) ==
    /\ entry \in {"plan", "execute"}
    /\ fast_mode \in BOOLEAN
    /\ media_files = SubSeq(AllFiles, 1, n)
    /\ \E kind \in [1..n -> FileKinds] :
          /\ has_gps_data = [p \in SrcPaths |->
                                \E k \in 1..n : AllFiles[k] = p /\ kind[k].hint]
          /\ gps = [p \in SrcPaths |->
                       IF \E k \in 1..n : AllFiles[k] = p
                       THEN kind[CHOOSE k \in 1..n : AllFiles[k] = p].gps
                       ELSE NoneVal]
    /\ run = NoRun
    /\ ui = NoPrompt

----------------------------------------------------------------------------
(* The resolver used by a single caller: any sequence of reverse_geocode   *)
(* and batch_reverse_geocode calls, MaxCalls reverse_geocode calls in all. *)

MaxCalls == 2


InitGeo == InitGeocoder /\ IdleFileOrganizer /\ IdleOrchestrator

NextGeo ==
    \/ /\ \E c \in {CA, CA2, CD} : ncalls < MaxCalls /\ Resolve("main", c)
       /\ UNCHANGED outsideGeocoder
    \/ Throttle("main") /\ UNCHANGED outsideGeocoder
    \/ Wake("main") /\ UNCHANGED outsideGeocoder
    \/ Attempt("main") /\ UNCHANGED outsideGeocoder
    \/ /\ \E raw \in {RawDelhi, RawMunich, RawBad} : RespondAnswer("main", raw)
       /\ UNCHANGED outsideGeocoder
    \/ /\ \E kind \in {"empty", "unavailable", "error", "timeout"} :
             RespondFailure("main", kind)
       /\ UNCHANGED outsideGeocoder
    \/ Tick /\ UNCHANGED outsideGeocoder

SpecGeo == InitGeo /\ [][NextGeo]_vars

\* The steps of a call that is under way: the thread is scheduled, its
\* sleeps end as time passes, and every request that went out returns or
\* times out.
CallProgress ==
    \/ Throttle("main") /\ UNCHANGED outsideGeocoder
    \/ Wake("main") /\ UNCHANGED outsideGeocoder
    \/ Attempt("main") /\ UNCHANGED outsideGeocoder
    \/ /\ \E raw \in {RawDelhi, RawMunich, RawBad} : RespondAnswer("main", raw)
       /\ UNCHANGED outsideGeocoder
    \/ /\ \E kind \in {"empty", "unavailable", "error", "timeout"} :
             RespondFailure("main", kind)
       /\ UNCHANGED outsideGeocoder
    \/ /\ pc["main"] = "sleep"
       /\ Tick /\ UNCHANGED outsideGeocoder

SpecGeoFair == SpecGeo /\ WF_vars(CallProgress)

----------------------------------------------------------------------------
(* One batch_reverse_geocode call by a single caller on a fresh Geocoder,  *)
(* for every coordinate list of at most MaxLen elements.                   *)

MaxLen == 3

RECURSIVE ListsUpTo(_, _)
ListsUpTo(S, n) ==
    IF n = 0 THEN {<<>>}
    ELSE LET shorter == ListsUpTo(S, n - 1)
         IN  shorter \cup {Append(l, x) : l \in shorter, x \in S}

BatchInputs == ListsUpTo({CA, CB, CC, CD}, MaxLen)

InitBatch == InitGeocoder /\ IdleFileOrganizer /\ IdleOrchestrator

NextBatch ==
    \/ /\ bt["main"].status = "off"
       /\ \E l \in BatchInputs : BatchStart("main", l)
       /\ UNCHANGED outsideGeocoder
    \/ BatchNext("main") /\ UNCHANGED outsideGeocoder
    \/ BatchCollect("main") /\ UNCHANGED outsideGeocoder
    \/ Throttle("main") /\ UNCHANGED outsideGeocoder
    \/ Wake("main") /\ UNCHANGED outsideGeocoder
    \/ Attempt("main") /\ UNCHANGED outsideGeocoder
    \/ /\ \E raw \in {RawDelhi, RawMunich} : RespondAnswer("main", raw)
       /\ UNCHANGED outsideGeocoder
    \/ RespondFailure("main", "empty") /\ UNCHANGED outsideGeocoder
    \/ Tick /\ UNCHANGED outsideGeocoder

SpecBatch == InitBatch /\ [][NextBatch]_vars

----------------------------------------------------------------------------
(* A single caller placing files one after the other (MaxTasks calls of    *)
(* organize_file), and the worker pool of main.py:630-641 placing them     *)
(* concurrently.                                                           *)

MaxTasks == 3

InitPlace == InitFileOrganizer /\ IdleGeocoder /\ IdleOrchestrator

NextPlace ==
    \/ /\ \E p \in SrcPaths, loc \in PlaceLocations :
             ntasks < MaxTasks /\ StartTask("w1", p, loc)
       /\ UNCHANGED outsideFileOrganizer
    \/ DirLookup("w1") /\ UNCHANGED outsideFileOrganizer
    \/ (\E ok \in BOOLEAN : Mkdir("w1", ok)) /\ UNCHANGED outsideFileOrganizer
    \/ SrcCheck("w1") /\ UNCHANGED outsideFileOrganizer
    \/ DestCheck("w1") /\ UNCHANGED outsideFileOrganizer
    \/ SkipRead("w1") /\ UNCHANGED outsideFileOrganizer
    \/ SkipWrite("w1") /\ UNCHANGED outsideFileOrganizer
    \/ (\E ok \in BOOLEAN : Transfer("w1", ok)) /\ UNCHANGED outsideFileOrganizer

SpecPlace == InitPlace /\ [][NextPlace]_vars

\* One caller of organize_file on locations whose names are changed by
\* _sanitize_filename, or are "Unknown" in part or only after it.
DirLocations ==
    {Unknown3, <<"Unknown", "Unknown", " Goa ">>, <<".", ".", ".">>,
     <<"India", "Delhi", "New Delhi">>}

NextLocations ==
    \/ /\ \E p \in SrcPaths, loc \in DirLocations :
             ntasks < MaxTasks /\ StartTask("w1", p, loc)
       /\ UNCHANGED outsideFileOrganizer
    \/ DirLookup("w1") /\ UNCHANGED outsideFileOrganizer
    \/ (\E ok \in BOOLEAN : Mkdir("w1", ok)) /\ UNCHANGED outsideFileOrganizer
    \/ SrcCheck("w1") /\ UNCHANGED outsideFileOrganizer
    \/ DestCheck("w1") /\ UNCHANGED outsideFileOrganizer
    \/ SkipRead("w1") /\ UNCHANGED outsideFileOrganizer
    \/ SkipWrite("w1") /\ UNCHANGED outsideFileOrganizer
    \/ (\E ok \in BOOLEAN : Transfer("w1", ok)) /\ UNCHANGED outsideFileOrganizer

SpecLocations == InitPlace /\ [][NextLocations]_vars

\* tasks submitted to the pool
MaxPoolTasks == 2

InitPool == InitFileOrganizer /\ IdleGeocoder /\ IdleOrchestrator

NextPool ==
    \/ /\ \E w \in Workers, p \in SrcPaths, loc \in PlaceLocations :
             ntasks < MaxPoolTasks /\ StartTask(w, p, loc)
       /\ UNCHANGED outsideFileOrganizer
    \/ (\E w \in Workers : DirLookup(w)) /\ UNCHANGED outsideFileOrganizer
    \/ (\E w \in Workers, ok \in BOOLEAN : Mkdir(w, ok)) /\ UNCHANGED outsideFileOrganizer
    \/ (\E w \in Workers : SrcCheck(w)) /\ UNCHANGED outsideFileOrganizer
    \/ (\E w \in Workers : DestCheck(w)) /\ UNCHANGED outsideFileOrganizer
    \/ (\E w \in Workers : SkipRead(w)) /\ UNCHANGED outsideFileOrganizer
    \/ (\E w \in Workers : SkipWrite(w)) /\ UNCHANGED outsideFileOrganizer
    \/ (\E w \in Workers, ok \in BOOLEAN : Transfer(w, ok)) /\ UNCHANGED outsideFileOrganizer

SpecPool == InitPool /\ [][NextPool]_vars

----------------------------------------------------------------------------
(* The workers of the pool when no mkdir fails: what the interleaving of   *)
(* their create_location_directory calls alone can do.                     *)

NextDirs ==
    \/ /\ \E w \in Workers, p \in SrcPaths, loc \in PlaceLocations :
             ntasks < MaxPoolTasks /\ StartTask(w, p, loc)
       /\ UNCHANGED outsideFileOrganizer
    \/ (\E w \in Workers : DirLookup(w)) /\ UNCHANGED outsideFileOrganizer
    \/ (\E w \in Workers : Mkdir(w, TRUE)) /\ UNCHANGED outsideFileOrganizer
    \/ (\E w \in Workers : SrcCheck(w)) /\ UNCHANGED outsideFileOrganizer
    \/ (\E w \in Workers : DestCheck(w)) /\ UNCHANGED outsideFileOrganizer
    \/ (\E w \in Workers : SkipRead(w)) /\ UNCHANGED outsideFileOrganizer
    \/ (\E w \in Workers : SkipWrite(w)) /\ UNCHANGED outsideFileOrganizer
    \/ (\E w \in Workers, ok \in BOOLEAN : Transfer(w, ok)) /\ UNCHANGED outsideFileOrganizer

SpecDirs == InitPool /\ [][NextDirs]_vars

----------------------------------------------------------------------------
(* One caller that makes reverse_geocode calls and batch_reverse_geocode   *)
(* calls in any order on one Geocoder, MaxCacheCalls of them at most.      *)

MaxCacheCalls == 2

InitCache == InitGeocoder /\ geolocator /\ IdleFileOrganizer /\ IdleOrchestrator

NextCache ==
    \/ /\ \E c \in {CA, CA2, CD} : ncalls < MaxCacheCalls /\ Resolve("main", c)
       /\ UNCHANGED outsideGeocoder
    \/ /\ \E l \in ListsUpTo({CA, CA2, CD}, MaxCacheCalls) :
             ncalls + Len(l) <= MaxCacheCalls /\ l # <<>> /\ BatchStart("main", l)
       /\ UNCHANGED outsideGeocoder
    \/ BatchNext("main") /\ UNCHANGED outsideGeocoder
    \/ BatchCollect("main") /\ UNCHANGED outsideGeocoder
    \/ Throttle("main") /\ UNCHANGED outsideGeocoder
    \/ Wake("main") /\ UNCHANGED outsideGeocoder
    \/ Attempt("main") /\ UNCHANGED outsideGeocoder
    \/ /\ \E raw \in {RawDelhi, RawMunich} : RespondAnswer("main", raw)
       /\ UNCHANGED outsideGeocoder
    \/ RespondFailure("main", "empty") /\ UNCHANGED outsideGeocoder
    \/ Tick /\ UNCHANGED outsideGeocoder

SpecCache == InitCache /\ [][NextCache]_vars

----------------------------------------------------------------------------
(* plan_organization or process_files on a source directory of at most     *)
(* MaxFiles files, with the resolver, the background thread and the pool.  *)

MaxFiles == 2

\* before FileOrganizer(dest_dir) is made: an empty destination, whose root
\* directory exists or not
BeforeFileOrganizer ==
    /\ src = InitialSrc
    /\ dest = <<>>
    /\ dirs \in {{}, {Root}}
    /\ folder_structure = "city"
    /\ directory_cache = <<>>
    /\ skipped_files_count = 0
    /\ operation \in {"copy", "move"}
    /\ wpc = [w \in Callers |-> "idle"]
    /\ wtask = [w \in Callers |-> NoTask]
    /\ ntasks = 0

InitOrch ==
    /\ InitGeocoder
    /\ geolocator
    /\ BeforeFileOrganizer
    /\ \E n \in 0..MaxFiles : InitOrchestrator(n)
    /\ entry = "plan" => operation = "copy"

NextOrch ==
    \/ Prepare
    \/ FastModePlan
    \/ FastModeExecute
    \/ LoopCall
    \/ LoopReturn
    \/ \E ok \in BOOLEAN : Spawn(ok)
    \/ WorkerCalls
    \/ WorkerReturns
    \/ WaitReturns
    \/ WaitTimesOut
    \/ SampleBatch
    \/ SampleReturns
    \/ SmallBatch
    \/ SmallReturns
    \/ PlanProcess
    \/ Submit
    \/ \E w \in Workers : PoolTake(w)
    \/ \E w \in Workers : Collect(w)
    \/ PoolExit
    \/ AfterPool
    \/ Summary
    \/ OrchTick
    \/ (\E t \in Threads : BatchNext(t)) /\ UNCHANGED outsideGeocoder
    \/ (\E t \in Threads : BatchCollect(t)) /\ UNCHANGED outsideGeocoder
    \/ (\E t \in Threads : Throttle(t)) /\ UNCHANGED outsideGeocoder
    \/ (\E t \in Threads : Wake(t)) /\ UNCHANGED outsideGeocoder
    \/ (\E t \in Threads : Attempt(t)) /\ UNCHANGED outsideGeocoder
    \/ (\E t \in Threads, raw \in {RawDelhi, RawNowhere} : RespondAnswer(t, raw))
          /\ UNCHANGED outsideGeocoder
    \/ (\E t \in Threads : RespondFailure(t, "empty")) /\ UNCHANGED outsideGeocoder
    \/ (\E w \in Callers : DirLookup(w)) /\ UNCHANGED outsideFileOrganizer
    \/ (\E w \in Callers : Mkdir(w, TRUE)) /\ UNCHANGED outsideFileOrganizer
    \/ (\E w \in Callers : SrcCheck(w)) /\ UNCHANGED outsideFileOrganizer
    \/ (\E w \in Callers : DestCheck(w)) /\ UNCHANGED outsideFileOrganizer
    \/ (\E w \in Callers : SkipRead(w)) /\ UNCHANGED outsideFileOrganizer
    \/ (\E w \in Callers : SkipWrite(w)) /\ UNCHANGED outsideFileOrganizer
    \/ (\E w \in Callers, ok \in BOOLEAN : Transfer(w, ok))
          /\ UNCHANGED outsideFileOrganizer

SpecOrch == InitOrch /\ [][NextOrch]_vars

----------------------------------------------------------------------------
(* The large-dataset path without fast mode when the service may leave a   *)
(* request without any answer: two files with coordinates, the background  *)
(* call, the wait with its timeout and the call on the sample.             *)

InitHang ==
    /\ InitOrch
    /\ ~fast_mode
    /\ tqdm_available
    /\ Len(media_files) = MaxFiles
    /\ \A k \in DOMAIN media_files :
          HasGpsHint(media_files[k]) /\ gps[media_files[k]] \in {CA, CD}

\* geocoding_completed.wait(timeout=900), lines 246 and 525: while the main
\* thread waits, time passes up to the end of the timeout whatever the
\* other thread does
WaitTick ==
    /\ run.pc = "wait"
    /\ ~run.geocoding_completed
    /\ now < run.deadline
    /\ \A t \in Threads : pc[t] = "sleep" => now < wake[t]
    /\ now' = now + 1
    /\ UNCHANGED <<geolocator, tqdm_available, geocoding_cache, cache_hits,
                   cache_misses, last_request_time, pc, fr, wake, bt, netlog,
                   prevCall, ncalls>>
    /\ UNCHANGED <<fsVars, orchVars>>

\* the steps of the program's own threads and of the clock
ProgramHang ==
    \/ Prepare
    \/ LoopCall
    \/ LoopReturn
    \/ Spawn(TRUE)
    \/ WorkerCalls
    \/ WorkerReturns
    \/ WaitReturns
    \/ WaitTimesOut
    \/ SampleBatch
    \/ SampleReturns
    \/ PlanProcess
    \/ Submit
    \/ \E w \in Workers : PoolTake(w)
    \/ \E w \in Workers : Collect(w)
    \/ PoolExit
    \/ AfterPool
    \/ Summary
    \/ OrchTick
    \/ WaitTick
    \/ (\E t \in Threads : BatchNext(t)) /\ UNCHANGED outsideGeocoder
    \/ (\E t \in Threads : BatchCollect(t)) /\ UNCHANGED outsideGeocoder
    \/ (\E t \in Threads : Throttle(t)) /\ UNCHANGED outsideGeocoder
    \/ (\E t \in Threads : Wake(t)) /\ UNCHANGED outsideGeocoder
    \/ (\E t \in Threads : Attempt(t)) /\ UNCHANGED outsideGeocoder
    \/ (\E w \in Callers : DirLookup(w)) /\ UNCHANGED outsideFileOrganizer
    \/ (\E w \in Callers : Mkdir(w, TRUE)) /\ UNCHANGED outsideFileOrganizer
    \/ (\E w \in Callers : SrcCheck(w)) /\ UNCHANGED outsideFileOrganizer
    \/ (\E w \in Callers : DestCheck(w)) /\ UNCHANGED outsideFileOrganizer
    \/ (\E w \in Callers : SkipRead(w)) /\ UNCHANGED outsideFileOrganizer
    \/ (\E w \in Callers : SkipWrite(w)) /\ UNCHANGED outsideFileOrganizer
    \/ (\E w \in Callers : Transfer(w, TRUE)) /\ UNCHANGED outsideFileOrganizer

\* the service answers a request that is in flight
ServiceAnswers ==
    (\E t \in Threads : RespondAnswer(t, RawDelhi)) /\ UNCHANGED outsideGeocoder

NextHang == ProgramHang \/ ServiceAnswers

\* The threads of the program run on (the interpreter schedules every
\* thread that can take a step, and the clock goes on); nothing is assumed
\* of the service, which may leave a request unanswered for ever.
SpecHang == InitHang /\ [][NextHang]_vars /\ WF_vars(ProgramHang)

\* the same with a service that answers every request in the end
SpecAnswering == SpecHang /\ WF_vars(ServiceAnswers)

----------------------------------------------------------------------------
(* plan_organization or process_files on a small dataset when the answer   *)
(* of the pre-filter is independent of what the extraction would return:   *)
(* a file with coordinates may fail the pre-filter, a file without may     *)
(* pass it.                                                                *)

InitHint ==
    /\ InitGeocoder
    /\ geolocator
    /\ tqdm_available
    /\ BeforeFileOrganizer
    /\ entry \in {"plan", "execute"}
    /\ entry = "plan" => operation = "copy"
    /\ fast_mode = FALSE
    /\ \E n \in 1..MaxFiles :
          /\ media_files = SubSeq(AllFiles, 1, n)
          /\ \E hint \in [1..n -> BOOLEAN], g \in [1..n -> {CA, NoneVal}] :
                /\ Cardinality({k \in 1..n : hint[k]}) <= LargeDataset
                /\ has_gps_data = [p \in SrcPaths |->
                                      \E k \in 1..n : AllFiles[k] = p /\ hint[k]]
                /\ gps = [p \in SrcPaths |->
                             IF \E k \in 1..n : AllFiles[k] = p
                             THEN g[CHOOSE k \in 1..n : AllFiles[k] = p]
                             ELSE NoneVal]
    /\ run = NoRun
    /\ ui = NoPrompt

NextHint ==
    \/ Prepare
    \/ LoopCall
    \/ LoopReturn
    \/ SmallBatch
    \/ SmallReturns
    \/ PlanProcess
    \/ Submit
    \/ \E w \in Workers : PoolTake(w)
    \/ \E w \in Workers : Collect(w)
    \/ PoolExit
    \/ AfterPool
    \/ Summary
    \/ (\E t \in Threads : BatchNext(t)) /\ UNCHANGED outsideGeocoder
    \/ (\E t \in Threads : BatchCollect(t)) /\ UNCHANGED outsideGeocoder
    \/ (\E t \in Threads : Throttle(t)) /\ UNCHANGED outsideGeocoder
    \/ (\E t \in Threads : Attempt(t)) /\ UNCHANGED outsideGeocoder
    \/ (\E t \in Threads : RespondAnswer(t, RawDelhi)) /\ UNCHANGED outsideGeocoder
    \/ (\E t \in Threads : RespondFailure(t, "empty")) /\ UNCHANGED outsideGeocoder
    \/ (\E w \in Callers : DirLookup(w)) /\ UNCHANGED outsideFileOrganizer
    \/ (\E w \in Callers : Mkdir(w, TRUE)) /\ UNCHANGED outsideFileOrganizer
    \/ (\E w \in Callers : SrcCheck(w)) /\ UNCHANGED outsideFileOrganizer
    \/ (\E w \in Callers : DestCheck(w)) /\ UNCHANGED outsideFileOrganizer
    \/ (\E w \in Callers : SkipRead(w)) /\ UNCHANGED outsideFileOrganizer
    \/ (\E w \in Callers : SkipWrite(w)) /\ UNCHANGED outsideFileOrganizer
    \/ (\E w \in Callers, ok \in BOOLEAN : Transfer(w, ok))
          /\ UNCHANGED outsideFileOrganizer

SpecHint == InitHint /\ [][NextHint]_vars

----------------------------------------------------------------------------
(* get_user_input: the mode and the answers typed at the worker-count      *)
(* prompt, at most MaxAnswers of them.                                     *)

MaxAnswers == 3

\* lines that a user can type at the prompt
TypedLines ==
    {<<>>, <<" ">>, <<"a">>, <<"0">>, <<"1">>, <<"1", "6">>, <<"3", "2">>,
     <<"3", "3">>, <<"-", "1">>, <<" ", "7", " ">>}

InitInput ==
    /\ IdleGeocoder
    /\ IdleFileOrganizer
    /\ entry = "plan"
    /\ media_files = <<>>
    /\ has_gps_data = [p \in SrcPaths |-> FALSE]
    /\ gps = [p \in SrcPaths |-> NoneVal]
    /\ fast_mode = FALSE
    /\ run = NoRun
    /\ ui = [NoPrompt EXCEPT !.pc = "mode"]

NextInput ==
    \/ (\E mode \in {"plan", "execute"} : ModePrompt(mode))
          /\ UNCHANGED <<geoVars, fsVars>>
    \/ (\E typed \in TypedLines :
            Len(ui.answers) < MaxAnswers /\ WorkersPrompt(typed))
          /\ UNCHANGED <<geoVars, fsVars>>
    \/ ReturnInput /\ UNCHANGED <<geoVars, fsVars>>

SpecInput == InitInput /\ [][NextInput]_vars

----------------------------------------------------------------------------
(* The fallback sample alone: plan_organization or process_files stands   *)
(* before the lines that draw the sample, with a coordinate list of any   *)
(* length up to MaxListLen.  The elements of the list are their positions *)
(* (from 0), and the bound of the sample is any number up to              *)
(* MaxSampleBound, so that lists shorter than, equal to and longer than   *)
(* the bound, with and without a remainder, are all there.                *)

MaxListLen == 12

MaxSampleBound == 5

InitSample ==
    /\ IdleGeocoder
    /\ IdleFileOrganizer
    /\ entry \in {"plan", "execute"}
    /\ media_files = <<>>
    /\ has_gps_data = [p \in SrcPaths |-> FALSE]
    /\ gps = [p \in SrcPaths |-> NoneVal]
    /\ fast_mode = FALSE
    /\ ui = NoPrompt
    /\ \E n \in 0..MaxListLen, bound \in 1..MaxSampleBound :
          run = [NoRun EXCEPT !.pc = "sample_batch",
                              !.all_coordinates = [k \in 1..n |-> k - 1],
                              !.sample_bound = bound]

\* lines 249-255 and 528-534: sample_coordinates is assigned
DrawSample ==
    /\ run.pc = "sample_batch"
    /\ run' = [run EXCEPT
                 !.sample_coordinates = SampleOf(run.all_coordinates, run.sample_bound),
                 !.pc = "sample_drawn"]
    /\ UNCHANGED <<geoVars, fsVars, inputs>>

NextSample == DrawSample

SpecSample == InitSample /\ [][NextSample]_vars

----------------------------------------------------------------------------
(* Claims about the resolver *)

Last(seq) == seq[Len(seq)]

InCall(t) == fr[t].status # "none"

Finished(t) == fr[t].status \notin {"none", "running"}

\* C5 (as claimed): whatever the outcome of the first call, a second
\* reverse_geocode call on the same coordinate issues no network request and
\* returns the result of the first.
C5_AnyOutcomeIdempotent ==
    \A t \in Threads :
        (InCall(t) /\ fr[t].prev.done) =>
            /\ fr[t].nreq = 0
            /\ Finished(t) => fr[t].result = fr[t].prev.result

\* C5 (amended): when the previous call on the same coordinate stored its
\* result in the cache (the service answered with raw data) or was served
\* from the cache, the next call on that coordinate issues no network request
\* and returns the identical result.
C5_CachedIdempotent ==
    \A t \in Threads :
        (InCall(t) /\ fr[t].prev.done /\ fr[t].prev.status \in {"answered", "hit"}) =>
            /\ fr[t].nreq = 0
            /\ fr[t].status = "hit"
            /\ fr[t].result = fr[t].prev.result

C5_Witness ==
    /\ fr["main"].prev.status = "answered"
    /\ fr["main"].status = "hit"
    /\ fr["main"].result = <<"India", "Delhi", "New Delhi">>
    /\ netlog.count = 1

\* C6: any two consecutive outbound requests of one caller, first attempts
\* and retries alike, start at least min_delay apart; before the first attempt
\* of a cache-missing call the caller sleeps exactly the remainder of
\* min_delay since the last outbound request, and not at all when min_delay
\* has already elapsed (or no request was made yet).
C6_RateLimit ==
    /\ netlog.count >= 2 => netlog.minGap >= min_delay
    /\ \A t \in Threads :
          (InCall(t) /\ fr[t].thr_at # 0) =>
              fr[t].thr_sleep =
                 (IF fr[t].thr_gap # -1 /\ fr[t].thr_gap < min_delay
                  THEN min_delay - fr[t].thr_gap ELSE 0)

C6_Witness ==
    /\ netlog.count = 2
    /\ netlog.minGap = min_delay
    /\ fr["main"].thr_sleep = 1
    /\ fr["main"].prev.done = FALSE

\* C8: when attempts 1 and 2 time out and attempt 3 is answered, the call
\* returns and caches the location extracted from the third answer, after
\* sleeping base_delay * 2^0 and base_delay * 2^1 (so at least 3 * base_delay
\* after the call began).
C8_ThirdAttemptWins ==
    \A t \in Threads :
        fr[t].outs = <<"timeout", "timeout", "answer">> =>
            /\ fr[t].status = "answered"
            /\ fr[t].result = extract_country_state_city(fr[t].raw)
            /\ CacheKey(fr[t].coord) \in DOMAIN geocoding_cache
            /\ geocoding_cache[CacheKey(fr[t].coord)] = fr[t].result
            /\ fr[t].sleeps = <<base_delay * 1, base_delay * 2>>
            /\ fr[t].nreq = 3
            /\ now - fr[t].thr_at >= base_delay * 1 + base_delay * 2

C8_Witness ==
    /\ fr["main"].outs = <<"timeout", "timeout", "answer">>
    /\ fr["main"].result = <<"Germany", "Bavaria", "Munich">>

\* C9: an attempt that fails with service-unavailable or with any error other
\* than a timeout ends the call: no further request, no back-off sleep after
\* it, None is returned and the cache is as it was when the call began.
C9_AbortOnError ==
    \A t \in Threads :
        (fr[t].outs # <<>> /\ Last(fr[t].outs) \in {"unavailable", "error"}) =>
            /\ pc[t] = "idle"
            /\ fr[t].status = Last(fr[t].outs)
            /\ fr[t].result = NoneVal
            /\ fr[t].nreq = Len(fr[t].outs)
            /\ Len(fr[t].sleeps) = Len(fr[t].outs) - 1
            /\ geocoding_cache = fr[t].cache0

C9_Witness ==
    /\ fr["main"].outs = <<"timeout", "unavailable">>
    /\ pc["main"] = "idle"
    /\ DOMAIN geocoding_cache # {}

\* C10: batch_reverse_geocode calls reverse_geocode exactly once per
\* coordinate group, on the group's first member; the mapping it returns has
\* exactly the input coordinates as keys, and every coordinate maps to the
\* result obtained for the representative of its own group.
C10_BatchBroadcast ==
    \A t \in Threads :
        bt[t].status = "done" =>
            LET b == bt[t]
                gp == GroupPositions(b.coordinates, tolerance)
            IN  /\ Len(b.calls) = Len(gp)
                /\ ncalls = Len(gp)
                /\ \A g \in 1..Len(gp) :
                      b.calls[g].coord = b.coordinates[gp[g][1]]
                /\ DOMAIN b.results = Range(b.coordinates)
                /\ \A g \in 1..Len(gp) : \A k \in 1..Len(gp[g]) :
                      b.results[b.coordinates[gp[g][k]]] = b.calls[g].result

C10_Witness ==
    /\ bt["main"].status = "done"
    /\ bt["main"].coordinates = <<CB, CD, CA>>
    /\ bt["main"].results[CA] = <<"India", "Delhi", "New Delhi">>
    /\ bt["main"].results[CD] = NoneVal
    /\ ncalls = 2

----------------------------------------------------------------------------
(* Claims about _group_similar_coordinates *)

\* a batch call has computed its groups
Grouped(t) == bt[t].status \in {"running", "done"}

\* the groups of positions that hold position p
GroupsOf(positions, p) ==
    {g \in 1..Len(positions) : \E k \in 1..Len(positions[g]) : positions[g][k] = p}

\* the squared distance of two coordinates, and the squared tolerance
Dist2(c1, c2) ==
    (c1[1] - c2[1]) * (c1[1] - c2[1]) + (c1[2] - c2[2]) * (c1[2] - c2[2])

Near(c1, c2) ==
    /\ Abs(c1[1] - c2[1]) <= tolerance
    /\ Abs(c1[2] - c2[2]) <= tolerance
    /\ Dist2(c1, c2) <= tolerance * tolerance

\* C11: the groups are a partition of the input: every position of the
\* input list is in exactly one group and once in it, no group is empty,
\* the groups hold the coordinates of their positions and nothing else, and
\* two positions with equal coordinates are in the same group.
C11_GroupsPartition ==
    \A t \in Threads :
        Grouped(t) =>
            LET b == bt[t]
                n == Len(b.coordinates)
            IN  /\ \A p \in 1..n : Cardinality(GroupsOf(b.positions, p)) = 1
                /\ \A g \in 1..Len(b.positions) :
                      /\ b.positions[g] # <<>>
                      /\ \A k \in 1..Len(b.positions[g]) : b.positions[g][k] \in 1..n
                      /\ \A k, m \in 1..Len(b.positions[g]) :
                            k # m => b.positions[g][k] # b.positions[g][m]
                /\ Len(b.groups) = Len(b.positions)
                /\ \A g \in 1..Len(b.groups) :
                      /\ Len(b.groups[g]) = Len(b.positions[g])
                      /\ \A k \in 1..Len(b.groups[g]) :
                            b.groups[g][k] = b.coordinates[b.positions[g][k]]
                /\ \A p, q \in 1..n :
                      b.coordinates[p] = b.coordinates[q] =>
                          GroupsOf(b.positions, p) = GroupsOf(b.positions, q)

\* a list with a repeated coordinate and a second group between the two
C11_Witness ==
    /\ Grouped("main")
    /\ bt["main"].coordinates = <<CA, CD, CA>>
    /\ Len(bt["main"].groups) = 2

\* C12 as stated: any two members of a group are within the tolerance of
\* each other.
C12_MutuallyNear ==
    \A t \in Threads :
        Grouped(t) =>
            \A g \in 1..Len(bt[t].groups) :
                \A k, m \in 1..Len(bt[t].groups[g]) :
                    Near(bt[t].groups[g][k], bt[t].groups[g][m])

\* C12, amended: every member of a group is within the tolerance of the
\* group's first member (so two members are at most twice the tolerance
\* apart).
C12_NearRepresentative ==
    \A t \in Threads :
        Grouped(t) =>
            \A g \in 1..Len(bt[t].groups) :
                \A k \in 1..Len(bt[t].groups[g]) :
                    /\ Near(bt[t].groups[g][1], bt[t].groups[g][k])
                    /\ \A m \in 1..Len(bt[t].groups[g]) :
                          Dist2(bt[t].groups[g][k], bt[t].groups[g][m])
                              <= 4 * tolerance * tolerance

\* a group of three whose second and third members are farther apart than
\* the tolerance
C12_Witness ==
    /\ Grouped("main")
    /\ bt["main"].groups = <<(<<CB, CA, CC>>)>>
    /\ ~Near(CA, CC)

\* the input coordinates are pairwise within the tolerance
PairwiseNear(coordinates) ==
    \A p, q \in 1..Len(coordinates) : Near(coordinates[p], coordinates[q])

\* C13: a non-empty list whose coordinates are pairwise within the
\* tolerance comes out as one group that holds the whole list.
C13_OneGroup ==
    \A t \in Threads :
        (Grouped(t) /\ bt[t].coordinates # <<>> /\ PairwiseNear(bt[t].coordinates)) =>
            bt[t].groups = <<bt[t].coordinates>>

\* two different coordinates exactly the tolerance apart, in both orders
C13_Witness ==
    /\ Grouped("main")
    /\ bt["main"].coordinates = <<CB, CA, CB>>
    /\ PairwiseNear(bt["main"].coordinates)
    /\ bt["main"].groups = <<(<<CB, CA, CB>>)>>

----------------------------------------------------------------------------
(* Claims about file placement *)

TaskDone(w) == wtask[w].status = "done"

\* the call of w skipped: the destination file was there at the test
Skipped(w) == TaskDone(w) /\ wtask[w].saw_dest

\* the call of w places again a file this caller has copied to the same
\* directory before
PlacedAgain(w) ==
    /\ TaskDone(w)
    /\ operation = "copy"
    /\ <<wtask[w].path, wtask[w].dir>> \in wtask[w].placed0

SkipEffect(w) ==
    /\ dest = wtask[w].dest0
    /\ src = wtask[w].src0
    /\ wtask[w].result = TRUE
    /\ skipped_files_count = wtask[w].skipped0 + 1

\* C4: for a single caller, a copy_file or move_file call that finds a file
\* of the source's name in the destination directory leaves the destination
\* tree and the source tree as they were at the start of the call, returns
\* True and adds one to skipped_files_count, whether the two contents are
\* equal or not; and a call that places again a file this caller has copied
\* to the same directory is such a call.
C4_SkipLeavesFilesAlone ==
    /\ Skipped("w1") => SkipEffect("w1")
    /\ PlacedAgain("w1") => Skipped("w1")

\* the caller has skipped a file over a destination file of different
\* content (which is still there) and then has placed a copied file again
C4_Witness ==
    /\ Skipped("w1")
    /\ PlacedAgain("w1")
    /\ wtask["w1"].identical
    /\ skipped_files_count = 2
    /\ \E k \in DOMAIN dest : dest[k] = "Z"

\* two pool tasks that place two source files of the same name and of
\* different content into the same directory
SameNameTasks(w1, w2) ==
    /\ w1 # w2
    /\ wtask[w1].status # "none" /\ wtask[w2].status # "none"
    /\ wtask[w1].path # "" /\ wtask[w2].path # ""
    /\ FileName(wtask[w1].path) = FileName(wtask[w2].path)
    /\ InitialSrc[wtask[w1].path] # InitialSrc[wtask[w2].path]
    /\ wtask[w1].dir = wtask[w2].dir

\* the content a source file had is still in the source tree or somewhere
\* in the destination tree
ContentKept(p) ==
    \/ p \in DOMAIN src /\ src[p] = InitialSrc[p]
    \/ \E k \in DOMAIN dest : dest[k] = InitialSrc[p]

\* C3: when two pool tasks place two source files of the same name and of
\* different content into the same directory, neither of them writes over a
\* destination file that is already there, and in move mode the content of
\* both source files is kept.
C3_FirstArrivalKept ==
    \A w1, w2 \in Workers :
        SameNameTasks(w1, w2) =>
            /\ ~wtask[w1].overwrote
            /\ operation = "move" =>
                  ContentKept(wtask[w1].path) /\ ContentKept(wtask[w2].path)

----------------------------------------------------------------------------
(* Claims about plan_organization and process_files *)

\* the function has run to its report or summary, through no data with
\* coordinates at all, a small dataset, fast mode, a background call that
\* completed, its timeout, or its error
Completed(e) ==
    /\ entry = e
    /\ run.pc = "returned"
    /\ run.branch \in {"none", "small", "fast", "completed", "timeout",
                       "resolver_error"}

Scanned == {media_files[k] : k \in DOMAIN media_files}

\* the places of a file in the plan's folder lists
Entries(folders, f) ==
    {e \in UNION {{<<key, k>> : k \in DOMAIN folders[key]} : key \in DOMAIN folders} :
        folders[e[1]][e[2]] = f}

\* C1: when process_files has run to its summary, in whichever branch,
\* organize_file has been called exactly once for every scanned file and
\* successful_operations + failed_operations is the number of scanned files.
C1_OrganizedOnce ==
    Completed("execute") =>
        /\ \A f \in Scanned : run.organize_calls[f] = 1
        /\ run.successful_operations + run.failed_operations = Len(media_files)

\* C2: when plan_organization has run to its report, in whichever branch,
\* every scanned file has exactly one entry in the folder lists and
\* total_files is the number of scanned files.
C2_ListedOnce ==
    Completed("plan") =>
        /\ \A f \in Scanned : Cardinality(Entries(run.folder_structure, f)) = 1
        /\ run.total_files = Len(media_files)

\* C15: in the fast-mode branch no call of the resolver is made (no batch
\* call, no reverse_geocode call, no request; the cache and its counters
\* stay as they were), every placement is made at the Unknown location and
\* the plan lists every file of coordinates_data under "Unknown" and has no
\* other folder key.
C15_FastModeSkipsResolver ==
    run.branch = "fast" =>
        /\ \A t \in Threads : bt[t].status = "off" /\ pc[t] = "idle"
        /\ ncalls = 0 /\ netlog.count = 0
        /\ geocoding_cache = <<>> /\ cache_hits = 0 /\ cache_misses = 0
        /\ \A w \in Callers : wtask[w].status # "none" => wtask[w].loc = Unknown3
        /\ \A k \in DOMAIN dest : k[1] = <<"Unknown">>
        /\ DOMAIN run.folder_structure \subseteq {UnknownKey}
        /\ run.pc = "returned" =>
              \A k \in DOMAIN run.coordinates_data :
                  IF entry = "plan"
                  THEN run.coordinates_data[k][1] \in
                          Range(run.folder_structure[UnknownKey])
                  ELSE run.organize_calls[run.coordinates_data[k][1]] >= 1

\* process_files has returned from the fast-mode branch with two files that
\* have coordinates, both placed in the Unknown directory
C15_Witness ==
    /\ run.branch = "fast"
    /\ entry = "execute"
    /\ run.pc = "returned"
    /\ \A k \in DOMAIN run.coordinates_data : run.coordinates_data[k][2] # NoneVal
    /\ Len(run.coordinates_data) = 2
    /\ Cardinality(DOMAIN dest) >= 1

\* C16: while plan_organization runs, no directory is created and no file
\* is created, changed or removed, in the source tree or under the
\* destination.
C16_PlanTouchesNothing ==
    [][entry = "plan" => UNCHANGED <<src, dest, dirs>>]_vars

\* C14: the plan never has the folder key "Unknown/Unknown/Unknown"; a file
\* whose coordinate resolved to ("Unknown", "Unknown", "Unknown") is listed
\* under "Unknown".
C14_UnknownCollapsed ==
    entry = "plan" =>
        /\ FolderKey(Unknown3) \notin DOMAIN run.folder_structure
        /\ run.pc = "returned" =>
              \A k \in DOMAIN run.coordinates_data :
                  ResultGet(run.geocoding_results, run.coordinates_data[k][2]) = Unknown3
                      => /\ UnknownKey \in DOMAIN run.folder_structure
                         /\ run.coordinates_data[k][1] \in
                               Range(run.folder_structure[UnknownKey])

\* a thread is inside batch_reverse_geocode or reverse_geocode
InResolver(t) == bt[t].status = "running" \/ pc[t] # "idle"

\* C7: at most one thread is inside the resolver at any time, and no two
\* outbound requests are less than min_delay apart.
C7_OneThreadInResolver ==
    /\ Cardinality({t \in Threads : InResolver(t)}) <= 1
    /\ netlog.count >= 2 => netlog.minGap >= min_delay

RECURSIVE SumCalls(_)
\* the number of organize_file calls made for the files of a set
SumCalls(files) ==
    IF files = {} THEN 0
    ELSE LET f == CHOOSE x \in files : TRUE
         IN  run.organize_calls[f] + SumCalls(files \ {f})

\* C17: in process_files a file whose extraction raises or whose placement
\* fails does not end the batch: when the function returns (the exception
\* of the resolver's batch call on a small dataset apart, which is no
\* failure of a file), organize_file has been called for every scanned
\* file, a file whose extraction raised was given to the Unknown location,
\* and every call is counted as a success or as a failure.
C17_BatchNeverAborts ==
    /\ \A w \in Callers :
          wtask[w].status # "none" /\ entry = "execute" /\ gps[wtask[w].path] = Raises
              => wtask[w].loc = Unknown3
    /\ entry = "execute" /\ run.pc = "returned" /\ run.branch # "exception" =>
          /\ \A f \in Scanned : run.organize_calls[f] >= 1
          /\ run.successful_operations + run.failed_operations = SumCalls(Scanned)

\* process_files has returned after the extraction of the first file
\* raised and a placement failed, and the second file was still placed
C17_Witness ==
    /\ entry = "execute"
    /\ run.pc = "returned"
    /\ Len(media_files) = 2
    /\ gps[media_files[1]] = Raises
    /\ run.failed_operations >= 1
    /\ run.successful_operations >= 1
    /\ run.organize_calls[media_files[2]] >= 1

\* the result set of the batch call on the sample (empty when it raised)
SampleResults == IF bt["main"].status = "done" THEN bt["main"].results ELSE <<>>

\* where the sample's result set sends a coordinate
SampleLocation(coordinates) ==
    LET location == ResultGet(SampleResults, coordinates)
    IN  IF Truthy(location) THEN location ELSE NoneVal

\* C18: when plan_organization or process_files has returned after the
\* background batch call timed out or reported an error, every file of
\* coordinates_data is routed as the result set of the sample says: to
\* Unknown when its coordinate is not in that set or has no result there,
\* and to the Location of the set otherwise (the plan lists it under that
\* folder key and under no other; every placement of the pool is made at
\* that location).
C18_RoutingFollowsSample ==
    run.pc = "returned" /\ run.branch \in {"timeout", "resolver_error"} =>
        \A k \in DOMAIN run.coordinates_data :
            LET d == run.coordinates_data[k]
                location == SampleLocation(d[2])
            IN  IF entry = "plan"
                THEN \A e \in Entries(run.folder_structure, d[1]) :
                        e[1] = FolderKey(location)
                ELSE \A j \in DOMAIN run.futures :
                        run.futures[j].path = d[1] =>
                            run.futures[j].loc =
                                (IF Truthy(location) THEN location ELSE Unknown3)

\* the main thread is in the geocoding phase of the large-dataset path: it
\* waits for the background call or is in the call on the sample
InGeocodingPhase == run.pc \in {"wait", "sample_batch", "sample_wait"}

LargeBranch ==
    run.branch \in {"fast", "background", "completed", "timeout",
                    "resolver_error", "thread_error"}

\* C20: plan_organization and process_files take the branch of a large
\* dataset exactly when the number of files whose extraction returned
\* coordinates is above the threshold, so that both take the same branch
\* on the same files.
C20_ThresholdOnCoordinates ==
    run.pc # "start" /\ media_files # <<>> =>
        (LargeBranch <=> Len(PlanCoordinatesData) > LargeDataset)

\* the folders a file has been routed to: the keys of the plan that list it,
\* or the locations organize_file was called with for it
RoutedTo(f) ==
    IF entry = "plan" THEN {e[1] : e \in Entries(run.folder_structure, f)}
    ELSE run.routes[f]

\* C21: the answer of the pre-filter does not decide where a file goes.
\* Two files of one run whose extraction returns the same (the same
\* coordinates, or none) stand for one file in two runs that differ in the
\* answer of the pre-filter only, the batch call resolving equal coordinates
\* once: when the function has returned they are routed to the same folder.
C21_HintNotABoundary ==
    run.pc = "returned" =>
        \A f, g \in Scanned : gps[f] = gps[g] => RoutedTo(f) = RoutedTo(g)

\* an answer that is a number of 1..32
ValidNumber(typed) ==
    LET parsed == int(strip(typed))
    IN  /\ strip(typed) # <<>>
        /\ ~parsed.raised
        /\ 1 <= parsed.value /\ parsed.value <= MaxWorkers

\* C22: whatever is typed at the worker-count prompt, the number of workers
\* that get_user_input returns, and with which the pool is made, is in
\* 1..32, and it is 16 when no valid number was typed.
C22_WorkersInRange ==
    ui.pc \in {"return", "done"} =>
        LET workers == IF ui.pc = "done" THEN ui.self_max_workers ELSE ui.max_workers
        IN  /\ 1 <= workers /\ workers <= MaxWorkers
            /\ (\A k \in DOMAIN ui.answers : ~ValidNumber(ui.answers[k]))
                  => workers = DefaultWorkers

\* an organize_file call is running
Placing(w) == wtask[w].status = "running"

\* C23 (as claimed): in process_files no placement runs while a batch call
\* started by this run is still executing.
C23_NoPlacementDuringBatch ==
    entry = "execute" =>
        \A w \in Callers : Placing(w) => \A t \in Threads : ~InResolver(t)

\* C23 (amended): in process_files no placement runs while the main thread
\* is inside a batch call or waits for the background call; a background
\* call that is still executing during a placement is one whose wait has
\* timed out.
C23_PlacementAfterWait ==
    entry = "execute" =>
        \A w \in Callers :
            Placing(w) =>
                /\ ~InResolver("main")
                /\ run.pc \notin {"start", "small", "small_wait", "fast", "spawn",
                                   "wait", "sample_batch", "sample_wait"}
                /\ InResolver("bg") => run.branch = "timeout"

\* a worker of the pool places a file while the background call, abandoned
\* at the timeout, is still executing
C23_Witness ==
    /\ entry = "execute"
    /\ run.branch = "timeout"
    /\ run.pc = "pool"
    /\ \E w \in Workers : Placing(w)
    /\ InResolver("bg")

\* the organize_file calls that have been started and are not yet counted
Pending ==
    Cardinality({k \in DOMAIN run.futures : run.futures[k].state = "running"})
    + (IF run.pc = "loop_ret" THEN 1 ELSE 0)

\* C24: in process_files every organize_file call is counted once, as a
\* success or as a failure, in whatever order the tasks of the pool end:
\* the two counters together are the number of calls that have been
\* started and counted, the pool has one task for every entry of
\* coordinates_data and has counted every one of them when it is left, and
\* no_gps_files and geocoding_failed_files count successes only.
C24_CountersAggregated ==
    entry = "execute" =>
        /\ run.successful_operations + run.failed_operations + Pending
              = SumCalls(Scanned)
        /\ run.no_gps_files + run.geocoding_failed_files <= run.successful_operations
        /\ run.pc \in {"after_pool", "summary"} /\ run.futures # <<>> =>
              /\ Len(run.futures) = Len(run.coordinates_data)
              /\ \A k \in DOMAIN run.futures : run.futures[k].state = "counted"

\* the task submitted second has been counted while the task submitted
\* first is still running
C24_Witness ==
    /\ entry = "execute"
    /\ run.pc = "pool"
    /\ Len(run.futures) = 2
    /\ run.futures[2].state = "counted"
    /\ run.futures[1].state = "running"

\* the create_location_directory call of w has returned
DirReturned(w) == wtask[w].status # "none" /\ wpc[w] \notin {"dir_lookup", "mkdir"}

TaskKey(w) ==
    DirCacheKey(folder_structure, wtask[w].loc[1], wtask[w].loc[2], wtask[w].loc[3])

CallStep(t, c) ==
    /\ pc[t] = "idle"
    /\ ncalls' = ncalls + 1
    /\ fr'[t] # fr[t]
    /\ fr'[t].coord = c

\* C26: a reverse_geocode call on a coordinate whose rounded key is in the
\* cache returns in one step with the cached value: no request, no sleep,
\* no passing of time; the cache, the miss counter and the time of the
\* last request stay as they are and the hit counter grows by one.
C26_HitChangesHitCounterOnly ==
    [][\A t \in Threads, c \in Coords :
          (CallStep(t, c) /\ CacheKey(c) \in DOMAIN geocoding_cache) =>
              /\ geocoding_cache' = geocoding_cache
              /\ cache_misses' = cache_misses
              /\ last_request_time' = last_request_time
              /\ netlog' = netlog
              /\ now' = now
              /\ cache_hits' = cache_hits + 1
              /\ pc'[t] = "idle"
              /\ fr'[t].status = "hit"
              /\ fr'[t].result = geocoding_cache[CacheKey(c)]
              /\ fr'[t].nreq = 0
              /\ fr'[t].sleeps = <<>>
              /\ fr'[t].thr_sleep = 0]_vars

\* the first call on a coordinate is served from the entry that a call on
\* another coordinate with the same rounded key has made
C26_Witness ==
    /\ fr["main"].status = "hit"
    /\ fr["main"].coord = CA2
    /\ ~fr["main"].prev.done
    /\ cache_hits = 1
    /\ cache_misses = 1
    /\ netlog.count = 1

\* C27: over the reverse_geocode and batch_reverse_geocode calls of one
\* caller (get_cache_stats only reads) the cache only grows: a key that is
\* in the cache stays in it with the value it has, and the cache_size that
\* get_cache_stats reports never goes down.
C27_CacheOnlyGrows ==
    [][/\ \A k \in DOMAIN geocoding_cache :
             k \in DOMAIN geocoding_cache' /\ geocoding_cache'[k] = geocoding_cache[k]
       /\ get_cache_stats'.cache_size >= get_cache_stats.cache_size]_vars

\* after a batch call that stored a result, a reverse_geocode call has
\* been served from the cache, which still holds that result
C27_Witness ==
    /\ bt["main"].status = "done"
    /\ Len(bt["main"].calls) = 1
    /\ Truthy(bt["main"].calls[1].result)
    /\ ncalls = 2
    /\ fr["main"].status = "hit"
    /\ get_cache_stats.cache_size = 1
    /\ get_cache_stats.cache_hits = 1

\* the result of the reverse_geocode call that the batch call b made on the
\* representative of the group of a coordinate
ResolvedFor(b, coordinates) ==
    LET g == CHOOSE j \in DOMAIN b.positions :
                 \E q \in Range(b.positions[j]) : b.coordinates[q] = coordinates
    IN  b.calls[g].result

\* the batch call on all coordinates: the background thread's when one was
\* started, the main thread's otherwise
FullBatch == IF bt["bg"].status # "off" THEN bt["bg"] ELSE bt["main"]

\* C28: when the files with coordinates are no more than the threshold and
\* the function has run to its report or summary, the batch call has been
\* made on all their coordinates, and every file with
\* coordinates is routed once, to the location that the call on the
\* representative of its coordinate's group returned, or to Unknown when
\* that call returned nothing.
C28_RoutedByRepresentative ==
    (/\ Completed("plan") \/ Completed("execute")
     /\ Len(PlanCoordinatesData) <= LargeDataset) =>
        \A k \in DOMAIN run.coordinates_data :
            LET d == run.coordinates_data[k]
                b == FullBatch
            IN  d[2] # NoneVal =>
                  /\ b.status = "done"
                  /\ b.coordinates = AllCoordinates(run.coordinates_data)
                  /\ LET result == ResolvedFor(b, d[2])
                     IN  RoutedTo(d[1]) =
                           {IF ~Truthy(result)
                            THEN IF entry = "plan" THEN UnknownKey ELSE Unknown3
                            ELSE IF entry = "plan" THEN FolderKey(result) ELSE result}

\* the Location a result set sends a coordinate to: the one it holds, and
\* Location("Unknown","Unknown","Unknown") when it holds none
LocationBy(results, coordinates) ==
    LET location == ResultGet(results, coordinates)
    IN  IF Truthy(location) THEN location ELSE Unknown3

\* C29: after the wait on the background batch call has timed out, the
\* result of the abandoned call is not used: when that call has finished
\* and the main thread stands before plan's result loop or before the
\* submission of execute's placement tasks, the result set these read
\* sends every coordinate to the Location the result set of the fallback
\* sample sends it to.
C29_AbandonedResultUnused ==
    (/\ run.branch = "timeout"
     /\ run.bg = "exited"
     /\ run.pc \in {"process", "submit"}) =>
        \A k \in DOMAIN run.coordinates_data :
            LET coordinates == run.coordinates_data[k][2]
            IN  LocationBy(run.geocoding_results, coordinates) =
                    LocationBy(SampleResults, coordinates)

\* no call has made more than max_retries requests, and a call whose three
\* requests all timed out has returned None after the two back-off sleeps
\* that lie between the attempts, with the cache as it was when it began
C30_ThreeTimeouts ==
    \A t \in Threads :
        /\ fr[t].nreq <= max_retries
        /\ Len(fr[t].outs) <= max_retries
        /\ fr[t].outs = <<"timeout", "timeout", "timeout">> =>
              /\ pc[t] = "idle"
              /\ fr[t].status = "timeout"
              /\ fr[t].result = NoneVal
              /\ fr[t].nreq = max_retries
              /\ fr[t].sleeps = <<BackoffDelay(0), BackoffDelay(1)>>
              /\ geocoding_cache = fr[t].cache0

\* C30: every call of reverse_geocode makes at most 3 requests and, when
\* every request returns or times out, the call returns; when all 3 time
\* out it returns None with no sleep after the last attempt and leaves the
\* cache unchanged.
C30_CallTerminates ==
    /\ []C30_ThreeTimeouts
    /\ \A t \in {"main"} : InCall(t) ~> pc[t] = "idle"

C30_Witness ==
    /\ fr["main"].outs = <<"timeout", "timeout", "timeout">>
    /\ pc["main"] = "idle"
    /\ fr["main"].nreq = 3
    /\ Len(fr["main"].sleeps) = 2

\* C31: a malformed answer is treated like an answer without location data:
\* a call that ended on either of them has returned None and has left the
\* cache as it was when the call began, so the next call on the coordinate
\* finds the same cache after both.
C31_MalformedLikeNoResult ==
    \A t \in Threads :
        (/\ Finished(t)
         /\ fr[t].outs # <<>>
         /\ \/ Last(fr[t].outs) = "empty"
            \/ Last(fr[t].outs) = "answer" /\ fr[t].raw = RawBad) =>
            /\ fr[t].result = NoneVal
            /\ geocoding_cache = fr[t].cache0

\* C32: process_files returns True exactly when no placement failed
\* (failed_operations = 0) or no media file was found: when it has run to
\* its end, its return value is True if failed_operations is 0 and False
\* otherwise.
C32_TrueIffNoFailure ==
    Completed("execute") =>
        run.returned = (IF media_files = <<>> \/ run.failed_operations = 0
                        THEN "True" ELSE "False")

\* the stride of the sample of a list of n elements under a bound
StepOf(n, bound) == n \div Min(bound, n)

C34_SampleReachesEnd ==
    (run.pc = "sample_drawn" /\ Len(run.all_coordinates) > run.sample_bound) =>
        LET n == Len(run.all_coordinates)
            last_sampled_position == run.sample_coordinates[Len(run.sample_coordinates)]
        IN  n - 1 - last_sampled_position < StepOf(n, run.sample_bound)

\* C35: the grouping is greedy, the first group wins: the first member of
\* every group is its seed, the earliest position of the group; the groups
\* come in the input order of their seeds; every member is within the
\* tolerance of its group's seed and is in the group of the earliest seed
\* that is within the tolerance of it; and two seeds are more than the
\* tolerance apart.
C35_GreedyFirstGroupWins ==
    \A t \in Threads :
        Grouped(t) =>
            LET b == bt[t]
                G == 1..Len(b.positions)
                seed(g) == b.positions[g][1]
            IN  /\ \A g \in G : \A k \in 2..Len(b.positions[g]) :
                      seed(g) < b.positions[g][k]
                /\ \A g, h \in G : g < h => seed(g) < seed(h)
                /\ \A g \in G : \A k \in 1..Len(b.positions[g]) :
                      LET member == b.coordinates[b.positions[g][k]]
                      IN  /\ Near(b.coordinates[seed(g)], member)
                          /\ \A h \in G :
                                Near(b.coordinates[seed(h)], member) => g <= h
                /\ \A g, h \in G :
                      g # h => ~Near(b.coordinates[seed(g)], b.coordinates[seed(h)])

\* CB is within the tolerance of the seeds CA and CC, which are farther
\* apart: it is in the group of CA, the earlier seed
C35_Witness ==
    /\ Grouped("main")
    /\ bt["main"].coordinates = <<CA, CC, CB>>
    /\ bt["main"].positions = <<(<<1, 3>>), (<<2>>)>>
    /\ Near(CC, CB)

C37_CacheIndependentOfHistory ==
    \A w \in Callers :
        (DirReturned(w) /\ ~wtask[w].fellback) =>
            /\ wtask[w].dir = LocationPath(folder_structure, wtask[w].loc0[1],
                                           wtask[w].loc0[2], wtask[w].loc0[3])
            /\ LET key == DirCacheKey(folder_structure, wtask[w].loc0[1],
                                      wtask[w].loc0[2], wtask[w].loc0[3])
               IN  key \in DOMAIN directory_cache =>
                       directory_cache[key] = wtask[w].dir

\* the number of copy_file and move_file calls that found the destination
\* file present and skipped
SkipCalls ==
    wtask["w1"].nskips + wtask["w2"].nskips + wtask["main"].nskips

\* C38: when no placement call is under way, skipped_files_count is the
\* number of placement calls that found the destination file present and
\* skipped, whatever the interleaving of the workers was.
C38_EverySkipCounted ==
    (\A w \in Callers : wpc[w] = "idle") => skipped_files_count = SkipCalls

============================================================================
